---- MODULE Spec2Model ----
(***************************************************************************)
(* A model of the spudLink packet transport: CircularBuffer                *)
(* (circularBuffer.py), the PacketTool framing engine (packetTool.py) and  *)
(* the tick that drives them (ethernetLink.py, controllerHandler.py).      *)
(*                                                                         *)
(* Objects are records of their fields; every method is an operator that   *)
(* takes the object(s) it works on and returns the object(s) as the method *)
(* leaves them, together with its return value or the exception it raised. *)
(***************************************************************************)
EXTENDS Integers, Sequences, FiniteSets, TLC

\* -------------------------------------------------------------------------
\* Bounds of the model
\* -------------------------------------------------------------------------

\* capacity of the CircularBuffer exercised on its own (SpecBuffer)
BufferCapacity == 3

\* number of append calls in one behaviour of SpecBuffer
MaxAppends == 6

\* largest value appended in SpecBuffer (values are 1..MaxValue)
MaxValue == 2

\* longest payload of the frames sent one at a time (Spec)
MaxPayloadLen == 2

\* longest run of garbage bytes enumerated in full (Spec)
MaxGarbage == 2

\* the largest pNumBytesToRead passed to CircularBuffer.read on its own
MaxRead == 2

\* the largest pOffset passed to CircularBuffer.read on its own
MaxOffset == 1

\* the most passes the loop of handleMoveByDistanceAndTimePacket makes
MaxPasses == 2

\* the number of times CircularBuffer.reset is called on its own
MaxResets == 1

\* the number of connection requests the remote devices make
MaxConnections == 2

\* the longest of the short texts passed to sendString
MaxTextLen == 2

\* by how many bytes the longest text exceeds what outBuffer has room for
MaxExcess == 1

\* the most bytes a call of sendOutBuffer made on its own is to send
MaxSendLen == 3

\* the most bytes the transport takes in one write when it takes part
MaxAccept == 2

\* the largest index at which a field of a packet is parsed
MaxCursor == 1

\* signExtend is given every value from -MaxRaw to MaxRaw
MaxRaw == 4

\* signExtend is given every number of bits from 1 to MaxBits
MaxBits == 3

\* -------------------------------------------------------------------------
\* Small helpers
\* -------------------------------------------------------------------------

Min(a, b) == IF a < b THEN a ELSE b

Max(a, b) == IF a > b THEN a ELSE b

RECURSIVE SumSeq(_)
SumSeq(s) == IF s = <<>> THEN 0 ELSE Head(s) + SumSeq(Tail(s))

\* the last n elements of s (all of s when it has fewer)
LastN(s, n) == SubSeq(s, Max(1, Len(s) - n + 1), Len(s))

\* -------------------------------------------------------------------------
\* Arrays (array.array): len zero-initialised slots 0 .. len - 1; cells holds
\* the slots written so far, every other slot still holds 0
\* -------------------------------------------------------------------------

ZeroArray(len) == [len |-> len, cells |-> <<>>]

InArray(a, i) == i \in 0..(a.len - 1)

At(a, i) == IF i \in DOMAIN a.cells THEN a.cells[i] ELSE 0

Put(a, i, v) ==
    [a EXCEPT !.cells = [j \in (DOMAIN a.cells) \cup {i} |->
                            IF j = i THEN v ELSE a.cells[j]]]

\* a[lo:hi], the slots lo .. hi - 1 of a as a sequence
Slice(a, lo, hi) == [i \in 1..(hi - lo) |-> At(a, lo + i - 1)]

\* a after a[x], a[x + 1], ... were assigned the elements of s in turn
PutAll(a, x, s) ==
    [a EXCEPT !.cells = [j \in (DOMAIN a.cells) \cup (x..(x + Len(s) - 1)) |->
                            IF j \in x..(x + Len(s) - 1) THEN s[j - x + 1]
                            ELSE a.cells[j]]]

\* a[lo] + ... + a[hi - 1], summed by halves
RECURSIVE SumSlots(_, _, _)
SumSlots(a, lo, hi) ==
    IF hi <= lo THEN 0
    ELSE IF hi = lo + 1 THEN At(a, lo)
    ELSE SumSlots(a, lo, (lo + hi) \div 2) + SumSlots(a, (lo + hi) \div 2, hi)

\* =========================================================================
\* CircularBuffer (circularBuffer.py)
\* =========================================================================

\* CircularBuffer.__init__: bufferSize + 1 zeroed slots, both indices 0
CircularBuffer(pBufferSize) ==
    [ bufferSize        |-> pBufferSize,
      buffer            |-> [i \in 0..pBufferSize |-> 0],
      nextInsertIndex   |-> 0,
      nextRetrieveIndex |-> 0 ]

\* a reset that sets the insert index only
resetInsertIndexOnly(cb) == [cb EXCEPT !.nextInsertIndex = 0]

\* CircularBuffer.reset
CircularBuffer_reset(cb) ==
    [cb EXCEPT !.nextInsertIndex = 0, !.nextRetrieveIndex = 0]

\* CircularBuffer.available
available(cb) ==
    IF cb.nextInsertIndex >= cb.nextRetrieveIndex
    THEN cb.nextInsertIndex - cb.nextRetrieveIndex
    ELSE (cb.bufferSize - cb.nextRetrieveIndex) + cb.nextInsertIndex

\* an index that is incremented and never set back to 0
nextIndexWithoutWrap(cb, i) == i + 1

\* the index after i: incremented, and set to 0 when it equals bufferSize
nextIndex(cb, i) == IF i + 1 = cb.bufferSize THEN 0 ELSE i + 1

\* CircularBuffer.append
append(cb, pValue) ==
    [cb EXCEPT !.buffer[cb.nextInsertIndex] = pValue,
               !.nextInsertIndex = nextIndex(cb, cb.nextInsertIndex)]

\* a retrieve that does not look at available()
retrieveWithoutCheck(cb) ==
    [cb    |-> [cb EXCEPT !.nextRetrieveIndex =
                              nextIndex(cb, cb.nextRetrieveIndex)],
     exc   |-> "none",
     value |-> cb.buffer[cb.nextRetrieveIndex]]

\* CircularBuffer.retrieve: raises NoBytesAvailable when available() = 0
retrieve(cb) ==
    IF available(cb) = 0
    THEN [cb |-> cb, exc |-> "NoBytesAvailable", value |-> 0]
    ELSE [cb    |-> [cb EXCEPT !.nextRetrieveIndex =
                                   nextIndex(cb, cb.nextRetrieveIndex)],
          exc   |-> "none",
          value |-> cb.buffer[cb.nextRetrieveIndex]]

\* a peek that removes the value it returns
peekThatRemoves(cb) == retrieve(cb)

\* CircularBuffer.peek: raises NoBytesAvailable when available() = 0; it
\* assigns to no field
peek(cb) ==
    IF available(cb) = 0
    THEN [cb |-> cb, exc |-> "NoBytesAvailable", value |-> 0]
    ELSE [cb |-> cb, exc |-> "none", value |-> cb.buffer[cb.nextRetrieveIndex]]

\* the loop of CircularBuffer.read: while count <= pNumBytesToRead, store
\* retrieve() at pBuffer[i]; NoBytesAvailable ends the loop, an index outside
\* pBuffer raises IndexError after the value has been retrieved
RECURSIVE readLoop(_, _, _, _, _)
readLoop(cb, pBuffer, i, count, pNumBytesToRead) ==
    IF count <= pNumBytesToRead
    THEN LET r == retrieve(cb) IN
         IF r.exc # "none"
         THEN [cb |-> cb, pBuffer |-> pBuffer, i |-> i, exc |-> "none"]
         ELSE IF ~InArray(pBuffer, i)
         THEN [cb |-> r.cb, pBuffer |-> pBuffer, i |-> i, exc |-> "IndexError"]
         ELSE readLoop(r.cb, Put(pBuffer, i, r.value), i + 1,
                       count + 1, pNumBytesToRead)
    ELSE [cb |-> cb, pBuffer |-> pBuffer, i |-> i, exc |-> "none"]

\* CircularBuffer.read: returns i, the index after the last value stored
read(cb, pBuffer, pOffset, pNumBytesToRead) ==
    LET r == readLoop(cb, pBuffer, pOffset, 0, pNumBytesToRead) IN
    [cb |-> r.cb, pBuffer |-> r.pBuffer, ret |-> r.i, exc |-> r.exc]

\* the values retrieve() would return, oldest first, until it raises
RECURSIVE Contents(_)
Contents(cb) ==
    LET r == retrieve(cb) IN
    IF r.exc # "none" THEN <<>> ELSE <<r.value>> \o Contents(r.cb)

\* =========================================================================
\* PacketTool (packetTool.py)
\* =========================================================================

\* RECEIVE_BUFFER_SIZE, the capacity of EthernetLink.receiveBuf
RECEIVE_BUFFER_SIZE == 50

\* PacketTool.IN_BUFFER_SIZE; inBuffer has IN_BUFFER_SIZE + 1 slots
IN_BUFFER_SIZE == 1024

\* PacketTool.OUT_BUFFER_SIZE; outBuffer has OUT_BUFFER_SIZE + 1 slots
OUT_BUFFER_SIZE == 1024

\* the values of PacketTypeEnum
PacketTypeEnum == {0, 1, 2, 3, 11, 12, 13, 14, 15, 16}

NO_PKT == 0

GET_DEVICE_INFO == 2

LOG_MESSAGE == 3

MOVE_BY_DISTANCE_AND_TIME == 15

SHUT_DOWN_OPERATING_SYSTEM == 16

\* PacketTool.reset: the parser fields as reset() leaves them
PacketTool_reset(pt) ==
    [pt EXCEPT !.pktType = NO_PKT,
               !.headerValid = FALSE,
               !.numPktDataBytes = 0,
               !.numDataBytesPlusChecksumByte = 0,
               !.pktChecksum = 0,
               !.destDeviceIdentifierFromReceivedPkt = 0,
               !.sourceDeviceIdentifierFromReceivedPkt = 0,
               !.resyncCount = 0]

\* PacketTool.__init__
PacketTool(pThisDeviceIdentifier) ==
    [ thisDeviceIdentifier                  |-> pThisDeviceIdentifier,
      inBuffer                              |-> ZeroArray(IN_BUFFER_SIZE + 1),
      outBuffer                             |-> ZeroArray(OUT_BUFFER_SIZE + 1),
      pktType                               |-> NO_PKT,
      headerValid                           |-> FALSE,
      numPktDataBytes                       |-> 0,
      numDataBytesPlusChecksumByte          |-> 0,
      pktChecksum                           |-> 0,
      destDeviceIdentifierFromReceivedPkt   |-> 0,
      sourceDeviceIdentifierFromReceivedPkt |-> 0,
      resyncCount                           |-> 0 ]

\* a peekForValue that retrieves the value it finds in either case
peekForValueTakingIt(cb, pTargetValue) ==
    LET p == peek(cb) IN
    IF p.exc # "none" THEN [cb |-> cb, ret |-> FALSE, exc |-> p.exc]
    ELSE [cb |-> retrieve(cb).cb, ret |-> p.value = pTargetValue,
          exc |-> "none"]

\* PacketTool.peekForValue: the next value is left in byteIn when it equals
\* pTargetValue (true), retrieved and tossed otherwise (false)
peekForValue(cb, pTargetValue) ==
    LET p == peek(cb) IN
    IF p.exc # "none" THEN [cb |-> cb, ret |-> FALSE, exc |-> p.exc]
    ELSE IF p.value # pTargetValue
    THEN [cb |-> retrieve(cb).cb, ret |-> FALSE, exc |-> "none"]
    ELSE [cb |-> cb, ret |-> TRUE, exc |-> "none"]

\* the loop of PacketTool.resync: while byteIn.available() > 0, return as soon
\* as peekForValue(0xaa) is true
RECURSIVE resyncLoop(_)
resyncLoop(cb) ==
    IF available(cb) > 0
    THEN LET p == peekForValue(cb, 170) IN
         IF p.ret THEN p.cb ELSE resyncLoop(p.cb)
    ELSE cb

\* PacketTool.resync
resync(pt, cb) ==
    [pt  |-> [pt EXCEPT !.resyncCount = pt.resyncCount + 1],
     cb  |-> resyncLoop(cb),
     exc |-> "none"]

\* a payload length with the second byte as the more significant
combineBytesLowFirst(pMSB, pLSB) == ((pLSB * 256) % 65536) + (pMSB % 256)

\* the 16 bit payload length of the header:
\* ((MSB << 8) & 0xff00) + (LSB & 0xff)
combineBytes(pMSB, pLSB) == ((pMSB * 256) % 65536) + (pLSB % 256)

\* a header parser that leaves the checksum byte out of the number of bytes
\* that follow the header
headerLengthLSBWithoutChecksumByte(pt, pMSB, r7) ==
    [pt  |-> [pt EXCEPT !.pktChecksum = pt.pktChecksum + r7.value,
                        !.numPktDataBytes = combineBytes(pMSB, r7.value),
                        !.numDataBytesPlusChecksumByte =
                            combineBytes(pMSB, r7.value),
                        !.headerValid = TRUE],
     cb  |-> r7.cb,
     exc |-> "none"]

\* checkForPacketHeaderAvailable from the second length byte on: r7 is the
\* retrieve of the LSB; the header is valid
headerLengthLSB(pt, pMSB, r7) ==
    [pt  |-> [pt EXCEPT !.pktChecksum = pt.pktChecksum + r7.value,
                        !.numPktDataBytes = combineBytes(pMSB, r7.value),
                        !.numDataBytesPlusChecksumByte =
                            combineBytes(pMSB, r7.value) + 1,
                        !.headerValid = TRUE],
     cb  |-> r7.cb,
     exc |-> "none"]

\* ... from the first length byte on: r6 is the retrieve of the MSB
headerLengthMSB(pt, r6) ==
    headerLengthLSB([pt EXCEPT !.pktChecksum = pt.pktChecksum + r6.value],
                    r6.value, retrieve(r6.cb))

\* ... from the type byte on: r5 is the retrieve of pktTypeInt, which is
\* added to the checksum before PacketTypeEnum(pktTypeInt) raises ValueError
\* for a value that is no member of the enumeration
headerType(pt, r5) ==
    IF r5.value \notin PacketTypeEnum
    THEN [pt  |-> [pt EXCEPT !.pktChecksum = pt.pktChecksum + r5.value],
          cb  |-> r5.cb,
          exc |-> "ValueError"]
    ELSE headerLengthMSB([pt EXCEPT !.pktChecksum = pt.pktChecksum + r5.value,
                                    !.pktType = r5.value],
                         retrieve(r5.cb))

\* ... from the source byte on: r4 is the retrieve of the source identifier
headerSource(pt, r4) ==
    headerType([pt EXCEPT !.sourceDeviceIdentifierFromReceivedPkt = r4.value,
                          !.pktChecksum = pt.pktChecksum + r4.value],
               retrieve(r4.cb))

\* ... from the destination byte on: r3 is the retrieve of the destination
headerDest(pt, r3) ==
    headerSource([pt EXCEPT !.destDeviceIdentifierFromReceivedPkt = r3.value,
                            !.pktChecksum = pt.pktChecksum + r3.value],
                 retrieve(r3.cb))

\* a header search that stops at a wrong second sync byte without resync
headerSync2WithoutResync(pt, r2) ==
    IF r2.value # 85 THEN [pt |-> pt, cb |-> r2.cb, exc |-> "none"]
    ELSE headerDest([pt EXCEPT !.pktChecksum = pt.pktChecksum + 85],
                    retrieve(r2.cb))

\* ... from the second sync byte on: r2 is the second retrieve
headerSync2(pt, r2) ==
    IF r2.value # 85 THEN resync(pt, r2.cb)
    ELSE headerDest([pt EXCEPT !.pktChecksum = pt.pktChecksum + 85],
                    retrieve(r2.cb))

\* ... from the first sync byte on: r1 is the first retrieve
headerSync1(pt, r1) ==
    IF r1.value # 170 THEN resync(pt, r1.cb)
    ELSE headerSync2([pt EXCEPT !.pktChecksum = pt.pktChecksum + 170],
                     retrieve(r1.cb))

\* a header search that starts with fewer than 7 bytes
headerSearchWithoutLengthTest(pt, cb) ==
    IF available(cb) < 1 THEN [pt |-> pt, cb |-> cb, exc |-> "none"]
    ELSE headerSync1([pt EXCEPT !.pktChecksum = 0], retrieve(cb))

\* PacketTool.checkForPacketHeaderAvailable
checkForPacketHeaderAvailable(pt, cb) ==
    IF available(cb) < 7 THEN [pt |-> pt, cb |-> cb, exc |-> "none"]
    ELSE headerSync1([pt EXCEPT !.pktChecksum = 0], retrieve(cb))

\* a checksum loop that stops one byte early: pktChecksum plus
\* inBuffer[0] .. inBuffer[n - 2]
RECURSIVE addToChecksumAllButLast(_, _, _)
addToChecksumAllButLast(pktChecksum, inBuffer, n) ==
    IF n <= 1 THEN pktChecksum
    ELSE addToChecksumAllButLast(pktChecksum + At(inBuffer, n - 2),
                                 inBuffer, n - 1)

\* the checksum loop of checkForPacketReady: pktChecksum plus
\* inBuffer[0] .. inBuffer[numDataBytesPlusChecksumByte - 1]
RECURSIVE addToChecksum(_, _, _)
addToChecksum(pktChecksum, inBuffer, n) ==
    IF n = 0 THEN pktChecksum
    ELSE addToChecksum(pktChecksum + At(inBuffer, n - 1), inBuffer, n - 1)

\* the address test of checkForPacketReady
addressedToThisDevice(pt) ==
    pt.destDeviceIdentifierFromReceivedPkt = pt.thisDeviceIdentifier

\* checkForPacketReady from the checksum test on; line is the line of the
\* return statement taken
readyVerdict(pt, cb) ==
    IF pt.pktChecksum % 256 # 0
    THEN [pt |-> pt, cb |-> cb, ret |-> FALSE, exc |-> "none", line |-> 251]
    ELSE [pt |-> pt, cb |-> cb, ret |-> TRUE, exc |-> "none", line |-> 253]

\* checkForPacketReady after byteIn.read (rd) has filled inBuffer
readyAfterRead(pt, rd) ==
    IF rd.exc # "none"
    THEN [pt |-> pt, cb |-> rd.cb, ret |-> FALSE, exc |-> rd.exc,
          line |-> 240]
    ELSE IF ~addressedToThisDevice(pt)
    THEN [pt |-> [pt EXCEPT !.inBuffer = rd.pBuffer], cb |-> rd.cb,
          ret |-> FALSE, exc |-> "none", line |-> 243]
    ELSE readyVerdict(
             [pt EXCEPT !.inBuffer = rd.pBuffer,
                        !.pktChecksum =
                            addToChecksum(pt.pktChecksum, rd.pBuffer,
                                          pt.numDataBytesPlusChecksumByte)],
             rd.cb)

\* a checkForPacketReady that waits for the data bytes only, not for the
\* checksum byte
readyAfterHeaderWithoutChecksumByte(h) ==
    IF h.exc # "none"
    THEN [pt |-> h.pt, cb |-> h.cb, ret |-> FALSE, exc |-> h.exc,
          line |-> 229]
    ELSE IF ~h.pt.headerValid
    THEN [pt |-> h.pt, cb |-> h.cb, ret |-> FALSE, exc |-> "none",
          line |-> 231]
    ELSE IF available(h.cb) < h.pt.numPktDataBytes
    THEN [pt |-> h.pt, cb |-> h.cb, ret |-> FALSE, exc |-> "none",
          line |-> 236]
    ELSE readyAfterRead([h.pt EXCEPT !.headerValid = FALSE],
                        read(h.cb, h.pt.inBuffer, 0,
                             h.pt.numDataBytesPlusChecksumByte))

\* a checkForPacketReady that takes a byte when what follows the header
\* has not all come
readyAfterHeaderTakingByte(h) ==
    IF h.exc # "none"
    THEN [pt |-> h.pt, cb |-> h.cb, ret |-> FALSE, exc |-> h.exc,
          line |-> 229]
    ELSE IF ~h.pt.headerValid
    THEN [pt |-> h.pt, cb |-> h.cb, ret |-> FALSE, exc |-> "none",
          line |-> 231]
    ELSE IF available(h.cb) < h.pt.numDataBytesPlusChecksumByte
    THEN [pt |-> h.pt, cb |-> retrieve(h.cb).cb,
          ret |-> FALSE, exc |-> "none", line |-> 236]
    ELSE readyAfterRead([h.pt EXCEPT !.headerValid = FALSE],
                        read(h.cb, h.pt.inBuffer, 0,
                             h.pt.numDataBytesPlusChecksumByte))

\* checkForPacketReady after the header search h (the header found by an
\* earlier call when headerValid was already set)
readyAfterHeader(h) ==
    IF h.exc # "none"
    THEN [pt |-> h.pt, cb |-> h.cb, ret |-> FALSE, exc |-> h.exc,
          line |-> 229]
    ELSE IF ~h.pt.headerValid
    THEN [pt |-> h.pt, cb |-> h.cb, ret |-> FALSE, exc |-> "none",
          line |-> 231]
    ELSE IF available(h.cb) < h.pt.numDataBytesPlusChecksumByte
    THEN [pt |-> h.pt, cb |-> h.cb, ret |-> FALSE, exc |-> "none",
          line |-> 236]
    ELSE readyAfterRead([h.pt EXCEPT !.headerValid = FALSE],
                        read(h.cb, h.pt.inBuffer, 0,
                             h.pt.numDataBytesPlusChecksumByte))

\* PacketTool.checkForPacketReady with byteIn set to cb
checkForPacketReady(pt, cb) ==
    readyAfterHeader(IF ~pt.headerValid
                     THEN checkForPacketHeaderAvailable(pt, cb)
                     ELSE [pt |-> pt, cb |-> cb, exc |-> "none"])

\* PacketTool.checkForPacketReady before setStreams: __init__ leaves in
\* byteIn the class of None, which is not None, so the call goes on to
\* byteIn.available(), in checkForPacketHeaderAvailable or, with a valid
\* header, in checkForPacketReady itself, and that raises AttributeError
checkForPacketReadyWithoutStreams(pt) ==
    [pt |-> pt, ret |-> FALSE, exc |-> "AttributeError",
     line |-> IF pt.headerValid THEN 233 ELSE 229]

\* a header with the source before the destination
prepareHeaderSourceFirst(outBuffer, pThisDeviceIdentifier, pDestAddress, pPacketType, pNumDataBytes) ==
    [outBuffer |->
         PutAll(outBuffer, 0,
                <<170, 85, pThisDeviceIdentifier, pDestAddress, pPacketType,
                  (pNumDataBytes \div 256) % 256, pNumDataBytes % 256>>),
     x |-> 7]

\* PacketTool.prepareHeader of a device whose identifier is
\* pThisDeviceIdentifier: the seven header bytes at outBuffer[0..6], x = 7
prepareHeader(outBuffer, pThisDeviceIdentifier, pDestAddress, pPacketType, pNumDataBytes) ==
    LET b0 == Put(outBuffer, 0, 170)
        b1 == Put(b0, 1, 85)
        b2 == Put(b1, 2, pDestAddress)
        b3 == Put(b2, 3, pThisDeviceIdentifier)
        b4 == Put(b3, 4, pPacketType)
        b5 == Put(b4, 5, (pNumDataBytes \div 256) % 256)
        b6 == Put(b5, 6, pNumDataBytes % 256)
    IN [outBuffer |-> b6, x |-> 7]

\* the slice a write that starts over offers to send
offeredFromStart(outBuffer, totalSent, pNumBytesToSend) ==
    Slice(outBuffer, 0, pNumBytesToSend - totalSent)

\* PacketTool.sendOutBuffer: self.outBuffer[totalSent:pNumBytesToSend], what
\* a write offers to send
offered(outBuffer, totalSent, pNumBytesToSend) ==
    Slice(outBuffer, totalSent, pNumBytesToSend)

\* what byteOut.send returns when it is offered n bytes: accepts lists how
\* many bytes the transport takes in its next writes, one after the other;
\* it takes all it is offered in every write after those
sendReturns(accepts, n) ==
    IF accepts = <<>> THEN n ELSE Min(Head(accepts), n)

\* the loop of PacketTool.sendOutBuffer: written is what the transport has
\* taken so far; send returning 0 raises SocketBroken
RECURSIVE sendLoop(_, _, _, _, _, _)
sendLoop(outBuffer, pNumBytesToSend, totalSent, accepts, written, writes) ==
    IF ~(totalSent < pNumBytesToSend)
    THEN [ret |-> TRUE, exc |-> "none", written |-> written,
          writes |-> writes, totalSent |-> totalSent]
    ELSE IF sendReturns(accepts,
                 Len(offered(outBuffer, totalSent, pNumBytesToSend))) = 0
    THEN [ret |-> FALSE, exc |-> "SocketBroken", written |-> written,
          writes |-> writes + 1, totalSent |-> totalSent]
    ELSE sendLoop(outBuffer, pNumBytesToSend,
             totalSent + sendReturns(accepts,
                 Len(offered(outBuffer, totalSent, pNumBytesToSend))),
             IF accepts = <<>> THEN accepts ELSE Tail(accepts),
             written \o SubSeq(offered(outBuffer, totalSent, pNumBytesToSend),
                 1, sendReturns(accepts,
                     Len(offered(outBuffer, totalSent, pNumBytesToSend)))),
             writes + 1)

\* PacketTool.sendOutBuffer on a transport that behaves as accepts says
sendOutBuffer(outBuffer, pNumBytesToSend, accepts) ==
    sendLoop(outBuffer, pNumBytesToSend, 0, accepts, <<>>, 0)

\* a copy loop that leaves only after the last byte of the text
copyCountOfWholeText(msgLength, x) == msgLength

\* the number of passes of the copy loop of PacketTool.sendString, which
\* starts at outBuffer[x], stores one byte of the text in each pass and
\* leaves after the last byte or when x has reached OUT_BUFFER_SIZE - 2
copyCount(msgLength, x) ==
    IF msgLength = 0 THEN 0 ELSE Min(msgLength, OUT_BUFFER_SIZE - 2 - x)

\* PacketTool.sendString from the assignment of the checksum byte c on:
\* outBuffer is array('B'), which raises OverflowError for a value above 255
sendStringStore(pt, b, x, c, accepts) ==
    IF c > 255
    THEN [pt |-> [pt EXCEPT !.outBuffer = b], ret |-> FALSE,
          exc |-> "OverflowError", written |-> <<>>, writes |-> 0, x |-> x]
    ELSE [pt |-> [pt EXCEPT !.outBuffer = Put(b, x, c)],
          ret     |-> sendOutBuffer(Put(b, x, c), x + 1, accepts).ret,
          exc     |-> sendOutBuffer(Put(b, x, c), x + 1, accepts).exc,
          written |-> sendOutBuffer(Put(b, x, c), x + 1, accepts).written,
          writes  |-> sendOutBuffer(Put(b, x, c), x + 1, accepts).writes,
          x       |-> x + 1]

\* a checksum byte taken modulo 256
checksumByteMod256(b, x) == (256 - (SumSlots(b, 0, x) % 256)) % 256

\* PacketTool.sendString: 0x100 - (checksum & 0xff), checksum being the sum
\* of outBuffer[0 .. x - 1]
checksumByte(b, x) == 256 - (SumSlots(b, 0, x) % 256)

\* PacketTool.sendString from the null terminator on
sendStringTerminate(pt, b, x, accepts) ==
    IF x < OUT_BUFFER_SIZE - 1
    THEN sendStringStore(pt, Put(b, x, 0), x + 1,
                         checksumByte(Put(b, x, 0), x + 1), accepts)
    ELSE sendStringStore(pt, b, x, checksumByte(b, x), accepts)

\* PacketTool.sendString from the copy loop on, h being what prepareHeader
\* returned
sendStringCopy(pt, h, msgBytes, accepts) ==
    sendStringTerminate(pt,
        PutAll(h.outBuffer, h.x,
               SubSeq(msgBytes, 1, copyCount(Len(msgBytes), h.x))),
        h.x + copyCount(Len(msgBytes), h.x), accepts)

\* PacketTool.sendString of the text whose encoding is msgBytes, on a
\* transport that behaves as accepts says
sendString(pt, pDestAddress, pPacketType, msgBytes, accepts) ==
    sendStringCopy(pt,
        prepareHeader(pt.outBuffer, pt.thisDeviceIdentifier, pDestAddress,
                      pPacketType, Len(msgBytes) + 1),
        msgBytes, accepts)

\* "Hello from Ubiquity Magni Robot Base!", encoded
Greeting ==
    <<72, 101, 108, 108, 111, 32, 102, 114, 111, 109, 32, 85, 98, 105,
      113, 117, 105, 116, 121, 32, 77, 97, 103, 110, 105, 32, 82, 111,
      98, 111, 116, 32, 66, 97, 115, 101, 33>>

\* 2 to the power n
RECURSIVE Pow2(_)
Pow2(n) == IF n = 0 THEN 1 ELSE 2 * Pow2(n - 1)

\* the low pBits bits of pValue, without a sign
zeroExtend(pValue, pBits) == pValue % Pow2(pBits)

\* PacketTool.signExtend: (pValue & mask) - (pValue & signBit)
signExtend(pValue, pBits) ==
    LET signBit == Pow2(pBits - 1) IN
    (pValue % signBit)
        - (IF (pValue \div signBit) % 2 = 1 THEN signBit ELSE 0)

\* a parser that returns the byte as it is stored
parseByteAsStored(pt, pIndex) ==
    [status |-> "PACKET_VALID",
     index  |-> pIndex + 1,
     value  |-> At(pt.inBuffer, pIndex)]

\* PacketTool.parseUnsignedByteFromPacket
parseUnsignedByteFromPacket(pt, pIndex) ==
    [status |-> "PACKET_VALID",
     index  |-> pIndex + 1,
     value  |-> signExtend(At(pt.inBuffer, pIndex), 8)]

\* a parser that returns the copy in place of the value
parseDuplexIntegerReturningCopy(pt, pIndex) ==
    LET value == signExtend(combineBytes(At(pt.inBuffer, pIndex),
                                         At(pt.inBuffer, pIndex + 1)), 16)
        copy  == signExtend(combineBytes(At(pt.inBuffer, pIndex + 2),
                                         At(pt.inBuffer, pIndex + 3)), 16)
    IN [status |-> IF value = copy THEN "PACKET_VALID"
                   ELSE "DUPLEX_MATCH_ERROR",
        index  |-> pIndex + 4,
        value  |-> copy]

\* PacketTool.parseDuplexIntegerFromPacket
parseDuplexIntegerFromPacket(pt, pIndex) ==
    LET value == signExtend(combineBytes(At(pt.inBuffer, pIndex),
                                         At(pt.inBuffer, pIndex + 1)), 16)
        copy  == signExtend(combineBytes(At(pt.inBuffer, pIndex + 2),
                                         At(pt.inBuffer, pIndex + 3)), 16)
    IN [status |-> IF value = copy THEN "PACKET_VALID"
                   ELSE "DUPLEX_MATCH_ERROR",
        index  |-> pIndex + 4,
        value  |-> value]

\* =========================================================================
\* EthernetLink and ControllerHandler (ethernetLink.py, controllerHandler.py)
\* =========================================================================

\* EthernetLink.handleReceive with the bytes of data immediately available on
\* the socket: each is appended to receiveBuf, in order
RECURSIVE handleReceive(_, _)
handleReceive(cb, data) ==
    IF data = <<>> THEN cb
    ELSE handleReceive(append(cb, Head(data)), Tail(data))

\* ControllerHandler.handleMoveByDistanceAndTimePacket: -1 at the first of
\* the four duplex fields whose copies differ, 1 after the move
handleMoveByDistanceAndTimePacket(pt) ==
    IF \E f \in 0..3 :
           parseDuplexIntegerFromPacket(pt, 4 * f).status # "PACKET_VALID"
    THEN [ret |-> -1, exc |-> "none"]
    ELSE [ret |-> 1, exc |-> "none"]

\* ControllerHandler.calcPacketChecksum: 0xff less the low byte of the sum
\* of all bytes but the first
calcPacketChecksum(msgBytes) ==
    255 - (SumSeq(Tail(msgBytes)) % 256)

\* the two bytes formMagniSpeedMessage makes of one speed: 0xff and the low
\* byte of the two's complement for a negative speed, 0 and the low byte
\* otherwise
speedBytes(speed) ==
    IF speed < 0 THEN <<255, (256 - ((-speed) % 256)) % 256>>
    ELSE <<0, speed % 256>>

\* ControllerHandler.formMagniSpeedMessage: the right speed, then the left
withChecksum(speedCmd) == Append(speedCmd, calcPacketChecksum(speedCmd))

formMagniSpeedMessage(leftSpeed, rightSpeed) ==
    withChecksum(<<126, 59, 42>> \o speedBytes(rightSpeed)
                     \o speedBytes(leftSpeed))

\* the numbers of passes the loop of handleMoveByDistanceAndTimePacket can
\* make: the first pass is the last when the duration is not positive or
\* the distance is 0 (currentPosition and startPosition stay 0); otherwise
\* the loop ends when the clock says the duration has passed
Passes(distanceToMove, timeDurationMS) ==
    IF timeDurationMS <= 0 \/ distanceToMove = 0 THEN {1}
    ELSE 1..MaxPasses

\* a move that does not stop the motors at its end
moveWithoutStop(pt, leftWheelSpeed, rightWheelSpeed, passes) ==
    [ret |-> 1, exc |-> "none",
     motor |-> [i \in 1..passes |->
                   formMagniSpeedMessage(leftWheelSpeed, rightWheelSpeed)]]

\* handleMoveByDistanceAndTimePacket from the loop on: setMotorSpeeds in
\* every pass, then stopMotors; motor is what was written to motorSerialLink
moveAndStop(pt, leftWheelSpeed, rightWheelSpeed, passes) ==
    [ret |-> 1, exc |-> "none",
     motor |-> [i \in 1..passes |->
                   formMagniSpeedMessage(leftWheelSpeed, rightWheelSpeed)]
                   \o <<formMagniSpeedMessage(0, 0)>>]

\* handleMoveByDistanceAndTimePacket with what it writes to motorSerialLink,
\* the loop making passes passes
moveByDistanceAndTime(pt, passes) ==
    IF \E f \in 0..3 :
           parseDuplexIntegerFromPacket(pt, 4 * f).status # "PACKET_VALID"
    THEN [ret |-> -1, exc |-> "none", motor |-> <<>>]
    ELSE moveAndStop(pt, parseDuplexIntegerFromPacket(pt, 8).value,
                     parseDuplexIntegerFromPacket(pt, 12).value, passes)

\* the device at the other end of the link
Remote(id) == 2 - id

\* what a handler that sends nothing returns (r)
handled(pt, r) ==
    [pt |-> pt, ret |-> r.ret, exc |-> r.exc, written |-> <<>>]

\* ControllerHandler.handleGetDeviceInfoPacket after sendString (s)
afterSendString(s) ==
    [pt |-> s.pt, ret |-> IF s.exc = "none" THEN 1 ELSE 0, exc |-> s.exc,
     written |-> s.written]

\* a handler that answers with a packet of the type it was sent
answerWithGetDeviceInfo(pt, sendOk) ==
    afterSendString(sendString(pt, Remote(pt.thisDeviceIdentifier),
                        GET_DEVICE_INFO, Greeting,
                        IF sendOk THEN <<>> ELSE <<0>>))

\* ControllerHandler.handleGetDeviceInfoPacket: sendString of the greeting to
\* the remote device as a LOG_MESSAGE packet; send on the client socket takes
\* all it is offered when sendOk, nothing otherwise
handleGetDeviceInfoPacket(pt, sendOk) ==
    afterSendString(sendString(pt, Remote(pt.thisDeviceIdentifier),
                        LOG_MESSAGE, Greeting,
                        IF sendOk THEN <<>> ELSE <<0>>))

\* ControllerHandler.handlePacket: the handler of the packet's type and what
\* it returns; handleShutDownOperatingSystem ends in sys.exit(); sendOk is
\* whether send on the client socket sends anything
handlePacketOn(pt, sendOk) ==
    IF pt.pktType = GET_DEVICE_INFO THEN handleGetDeviceInfoPacket(pt, sendOk)
    ELSE IF pt.pktType = LOG_MESSAGE
    THEN handled(pt, [ret |-> 1, exc |-> "none"])
    ELSE IF pt.pktType = MOVE_BY_DISTANCE_AND_TIME
    THEN handled(pt, handleMoveByDistanceAndTimePacket(pt))
    ELSE IF pt.pktType = SHUT_DOWN_OPERATING_SYSTEM
    THEN handled(pt, [ret |-> 0, exc |-> "SystemExit"])
    ELSE handled(pt, [ret |-> 0, exc |-> "none"])

\* ControllerHandler.handlePacket on a socket whose sends succeed
handlePacket(pt) == handlePacketOn(pt, TRUE)

\* handleCommunications after handlePacket (h), r being what
\* checkForPacketReady returned
afterHandlePacket(r, h) ==
    [pt |-> h.pt, cb |-> r.cb, poll |-> r, ret |-> h.ret, exc |-> h.exc,
     written |-> h.written]

\* a handleCommunications that calls handlePacket whatever
\* checkForPacketReady returned
afterPollOnDispatchingAlways(r, sendOk) ==
    IF r.exc = "none"
    THEN afterHandlePacket(r, handlePacketOn(r.pt, sendOk))
    ELSE [pt |-> r.pt, cb |-> r.cb, poll |-> r, ret |-> 0, exc |-> r.exc,
          written |-> <<>>]

\* handleCommunications after checkForPacketReady (r): handlePacket when it
\* returned true, 0 otherwise
afterPollOn(r, sendOk) ==
    IF r.exc = "none" /\ r.ret
    THEN afterHandlePacket(r, handlePacketOn(r.pt, sendOk))
    ELSE [pt |-> r.pt, cb |-> r.cb, poll |-> r, ret |-> 0, exc |-> r.exc,
          written |-> <<>>]

\* ... on a socket whose sends succeed
afterPoll(r) == afterPollOn(r, TRUE)

\* ControllerHandler.handleCommunications: pump, poll, dispatch
handleCommunications(pt, cb, data) ==
    afterPoll(checkForPacketReady(pt, handleReceive(cb, data)))

\* a try statement without the except SocketBroken clause
caughtWithoutSocketBroken == {"ConnectionResetError"}

\* the exceptions the try statement of doRunTimeTasks handles
caughtByDoRunTimeTasks == {"ConnectionResetError", "SocketBroken"}

\* ControllerHandler.disconnect: PacketTool.reset and, in
\* EthernetLink.disconnect, receiveBuf.reset
disconnect(pt, cb) ==
    [pt |-> PacketTool_reset(pt), cb |-> CircularBuffer_reset(cb)]

\* the except clauses of doRunTimeTasks: an exception of handleCommunications
\* (c) that they handle disconnects and returns 0; any other leaves
\* doRunTimeTasks (exc)
afterCommunications(c) ==
    IF c.exc \in caughtByDoRunTimeTasks
    THEN [pt |-> disconnect(c.pt, c.cb).pt, cb |-> disconnect(c.pt, c.cb).cb,
          poll |-> c.poll, ret |-> 0, exc |-> "none",
          written |-> c.written]
    ELSE c

\* ControllerHandler.doRunTimeTasks while connected
doRunTimeTasks(pt, cb, data) ==
    afterCommunications(handleCommunications(pt, cb, data))

\* the value of a reference that refers to no object
None == 0

\* EthernetLink.__init__, but for receiveBuf: not connected, no client socket
EthernetLink ==
    [connected |-> FALSE, clientSocket |-> None, clientSocketList |-> <<>>]

\* what the link sees of the network: the number of connection requests that
\* wait at the server socket, the state of every socket accept has returned
\* (socket i is sockets[i]), what the remote end of the connection has done
\* ("open", "closed": it closed the connection, "reset": it reset it),
\* whether a send on the client socket sends anything and whether the remote
\* device has sent its bytes
Network ==
    [pending |-> 0, sockets |-> <<>>, peer |-> "open", sendOk |-> TRUE,
     sent |-> FALSE]

\* an accept that does not look at the connected flag
connectWithoutConnectedTest(link, net) ==
    IF net.pending > 0
    THEN [link |-> [link EXCEPT
                      !.connected = TRUE,
                      !.clientSocket = Len(net.sockets) + 1,
                      !.clientSocketList = Append(@, Len(net.sockets) + 1)],
          net  |-> [net EXCEPT !.pending = @ - 1,
                               !.sockets = Append(@, "open")],
          ret  |-> 1]
    ELSE [link |-> link, net |-> net, ret |-> 0]

\* EthernetLink.connectToRemoteIfRequestPending: when not connected and a
\* request waits, accept returns a new socket, the next in net.sockets
connectToRemoteIfRequestPending(link, net) ==
    IF ~link.connected /\ net.pending > 0
    THEN [link |-> [link EXCEPT
                      !.connected = TRUE,
                      !.clientSocket = Len(net.sockets) + 1,
                      !.clientSocketList = Append(@, Len(net.sockets) + 1)],
          net  |-> [net EXCEPT !.pending = @ - 1,
                               !.sockets = Append(@, "open")],
          ret  |-> 1]
    ELSE [link |-> link, net |-> net, ret |-> 0]

\* the network after close() on socket s: the socket is closed; when it was
\* open, the connection that follows starts with its remote end open
closeSocket(net, s) ==
    IF net.sockets[s] = "open"
    THEN [net EXCEPT !.sockets[s] = "closed", !.peer = "open",
                     !.sendOk = TRUE, !.sent = FALSE]
    ELSE net

\* EthernetLink.disconnect: receiveBuf.reset(), connected = False, then
\* shutdown and close on clientSocket. With clientSocket None the shutdown
\* raises AttributeError, which the except OSError clause does not handle;
\* the OSError shutdown raises on a closed or unconnected socket is handled
EthernetLink_disconnect(link, cb, net) ==
    IF link.clientSocket = None
    THEN [link |-> [link EXCEPT !.connected = FALSE],
          cb   |-> CircularBuffer_reset(cb),
          net  |-> net, ret |-> 0, exc |-> "AttributeError"]
    ELSE [link |-> [link EXCEPT !.connected = FALSE],
          cb   |-> CircularBuffer_reset(cb),
          net  |-> closeSocket(net, link.clientSocket),
          ret  |-> 0, exc |-> "none"]

\* a disconnect that leaves the packet tool as it is
disconnectWithoutPacketToolReset(pt, cb, link, net) ==
    [pt   |-> pt,
     cb   |-> EthernetLink_disconnect(link, cb, net).cb,
     link |-> EthernetLink_disconnect(link, cb, net).link,
     net  |-> EthernetLink_disconnect(link, cb, net).net,
     ret  |-> EthernetLink_disconnect(link, cb, net).ret,
     exc  |-> EthernetLink_disconnect(link, cb, net).exc]

\* ControllerHandler.disconnect: packetTool.reset(), then
\* ethernetLink.disconnect()
ControllerHandler_disconnect(pt, cb, link, net) ==
    [pt   |-> PacketTool_reset(pt),
     cb   |-> EthernetLink_disconnect(link, cb, net).cb,
     link |-> EthernetLink_disconnect(link, cb, net).link,
     net  |-> EthernetLink_disconnect(link, cb, net).net,
     ret  |-> EthernetLink_disconnect(link, cb, net).ret,
     exc  |-> EthernetLink_disconnect(link, cb, net).exc]

\* EthernetLink.handleReceive when data is immediately available and the
\* remote end is in state peer: every byte is appended; after the last,
\* recv returns b'' when the remote end has closed (SocketBroken) and raises
\* ConnectionResetError when it has reset the connection
handleReceiveFrom(cb, data, peer) ==
    [cb  |-> handleReceive(cb, data),
     exc |-> IF peer = "closed" THEN "SocketBroken"
             ELSE IF peer = "reset" THEN "ConnectionResetError"
             ELSE "none"]

\* a pump that does not look at the connected flag
pumpWithoutConnectedTest(link, cb, data, peer) ==
    [cb    |-> handleReceiveFrom(cb, data, peer).cb,
     exc   |-> handleReceiveFrom(cb, data, peer).exc,
     taken |-> Len(data)]

\* EthernetLink.doRunTimeTasks: nothing when not connected, handleReceive
\* otherwise; taken is the number of bytes read from the socket
EthernetLink_doRunTimeTasks(link, cb, data, peer) ==
    IF ~link.connected THEN [cb |-> cb, exc |-> "none", taken |-> 0]
    ELSE [cb    |-> handleReceiveFrom(cb, data, peer).cb,
          exc   |-> handleReceiveFrom(cb, data, peer).exc,
          taken |-> Len(data)]

\* the result of checkForPacketReady when it was not called
NotPolled == [ret |-> FALSE, exc |-> "none", line |-> 0]

\* ControllerHandler.handleCommunications after ethernetLink.doRunTimeTasks
\* (p): an exception of it leaves handleCommunications, otherwise
\* checkForPacketReady and handlePacket follow
afterPump(pt, p, sendOk) ==
    IF p.exc # "none"
    THEN [pt |-> pt, cb |-> p.cb, poll |-> NotPolled, ret |-> 0,
          exc |-> p.exc, written |-> <<>>]
    ELSE afterPollOn(checkForPacketReady(pt, p.cb), sendOk)

\* ControllerHandler.handleCommunications on a link and a network
handleCommunicationsOn(pt, cb, link, net, data) ==
    afterPump(pt, EthernetLink_doRunTimeTasks(link, cb, data, net.peer),
              net.sendOk)

\* the except clauses of ControllerHandler.doRunTimeTasks on a link: an
\* exception of handleCommunications (c) that they handle disconnects and
\* returns 0; any other leaves doRunTimeTasks (exc)
afterCommunicationsOn(c, link, net) ==
    IF c.exc \in caughtByDoRunTimeTasks
    THEN [pt   |-> ControllerHandler_disconnect(c.pt, c.cb, link, net).pt,
          cb   |-> ControllerHandler_disconnect(c.pt, c.cb, link, net).cb,
          link |-> ControllerHandler_disconnect(c.pt, c.cb, link, net).link,
          net  |-> ControllerHandler_disconnect(c.pt, c.cb, link, net).net,
          poll |-> c.poll, ret |-> 0,
          exc  |-> ControllerHandler_disconnect(c.pt, c.cb, link, net).exc,
          written |-> c.written, disconnected |-> TRUE]
    ELSE [pt |-> c.pt, cb |-> c.cb, link |-> link, net |-> net,
          poll |-> c.poll, ret |-> c.ret, exc |-> c.exc,
          written |-> c.written, disconnected |-> FALSE]

\* ControllerHandler.doRunTimeTasks when not connected: r is
\* connectToRemoteIfRequestPending; setStreams follows a status of 1
afterConnect(pt, cb, r) ==
    [pt |-> pt, cb |-> cb, link |-> r.link, net |-> r.net,
     poll |-> NotPolled, ret |-> r.ret, exc |-> "none",
     written |-> <<>>, disconnected |-> FALSE]

\* ControllerHandler.doRunTimeTasks on a link and a network, data being the
\* bytes immediately available on the client socket
ControllerHandler_doRunTimeTasks(pt, cb, link, net, data) ==
    IF ~link.connected
    THEN afterConnect(pt, cb, connectToRemoteIfRequestPending(link, net))
    ELSE afterCommunicationsOn(
             handleCommunicationsOn(pt, cb, link, net, data), link, net)

\* a link whose first connection request has been accepted
ConnectedLink ==
    [connected |-> TRUE, clientSocket |-> 1, clientSocketList |-> <<1>>]

\* the network of ConnectedLink
ConnectedNet ==
    [pending |-> 0, sockets |-> <<"open">>, peer |-> "open", sendOk |-> TRUE,
     sent |-> TRUE]

\* =========================================================================
\* The byte streams a remote device sends
\* =========================================================================

\* the identifiers this device is configured with (HEAD_PI, MOTOR_CONTROLLER)
ThisDeviceIdentifiers == {0, 2}

\* the header of a frame as prepareHeader of the device src lays it out
HeaderBytes(src, dest, type, n) ==
    LET h == prepareHeader(ZeroArray(OUT_BUFFER_SIZE + 1), src, dest, type, n)
    IN [i \in 1..h.x |-> At(h.outBuffer, i - 1)]

\* the checksum byte of a frame: the byte that makes the sum of all of the
\* frame's bytes 0 modulo 256
WireChecksum(bytes) == (256 - (SumSeq(bytes) % 256)) % 256

\* byte with bit number bit (0 the lowest) inverted
FlipBit(byte, bit) ==
    IF (byte \div Pow2(bit)) % 2 = 1 THEN byte - Pow2(bit)
    ELSE byte + Pow2(bit)

\* a frame on the wire: header, payload, checksum; flipPos > 0 inverts bit
\* flipBit of byte flipPos of the finished frame
FrameBytes(f) ==
    LET body == HeaderBytes(f.src, f.dest, f.type, Len(f.payload))
                    \o f.payload
        good == body \o <<WireChecksum(body)>>
    IN IF f.flipPos = 0 THEN good
       ELSE [good EXCEPT ![f.flipPos] = FlipBit(@, f.flipBit)]

FrameSpec(dest, src, type, payload) ==
    [dest |-> dest, src |-> src, type |-> type, payload |-> payload,
     flipPos |-> 0, flipBit |-> 0]

RECURSIVE ConcatFrames(_)
ConcatFrames(fs) ==
    IF fs = <<>> THEN <<>> ELSE FrameBytes(Head(fs)) \o ConcatFrames(Tail(fs))

\* the bytes of a scenario, in the order they arrive
Stream(sc) == sc.garbage \o ConcatFrames(sc.frames)

PayloadBytes == {1, 170}

Payloads == UNION {[1..n -> PayloadBytes] : n \in 0..MaxPayloadLen}

GarbageBytes == {0, 85}

\* type codes that are no member of PacketTypeEnum
UnknownTypes == {6, 255}

\* the number of bytes of a header
HeaderLen == 7

\* the shortest frame: a header and a checksum
MinFrameLen == HeaderLen + 1

\* one frame built by this device's own prepareHeader, addressed to this
\* device or to the remote one
SingleScenarios(id) ==
    { [kind |-> "single", garbage |-> <<>>,
       frames |-> <<FrameSpec(dest, id, type, p)>>] :
         dest \in {id, Remote(id)}, type \in PacketTypeEnum, p \in Payloads }

\* one frame for this device that fills the receive buffer: RECEIVE_BUFFER_SIZE
\* bytes from header to checksum
LongScenarios(id) ==
    { [kind |-> "single", garbage |-> <<>>,
       frames |-> <<FrameSpec(id, id, LOG_MESSAGE,
                              [i \in 1..(RECEIVE_BUFFER_SIZE - MinFrameLen)
                                  |-> 1])>>] }

PairFrames(id) ==
    { FrameSpec(id, Remote(id), GET_DEVICE_INFO, <<>>),
      FrameSpec(id, Remote(id), LOG_MESSAGE, <<1>>),
      FrameSpec(Remote(id), Remote(id), GET_DEVICE_INFO, <<170>>) }

\* two frames back to back
PairScenarios(id) ==
    { [kind |-> "pair", garbage |-> <<>>, frames |-> <<a, b>>] :
         a \in PairFrames(id), b \in PairFrames(id) }

\* a frame with one bit inverted, followed by a well-formed frame
CorruptedScenarios(id) ==
    { [kind |-> "corrupted", garbage |-> <<>>,
       frames |-> << [FrameSpec(id, Remote(id), GET_DEVICE_INFO, <<1>>)
                         EXCEPT !.flipPos = pos, !.flipBit = bit],
                     FrameSpec(id, Remote(id), LOG_MESSAGE, <<>>) >>] :
         pos \in 1..(MinFrameLen + 1), bit \in 0..7 }

\* runs of garbage: every run of up to MaxGarbage bytes, and the runs that
\* with a shortest frame make RECEIVE_BUFFER_SIZE - 1 and RECEIVE_BUFFER_SIZE
\* bytes
Garbages ==
    UNION {[1..n -> GarbageBytes] : n \in 1..MaxGarbage}
    \cup { [i \in 1..n |-> 85] :
             n \in {RECEIVE_BUFFER_SIZE - MinFrameLen - 1,
                    RECEIVE_BUFFER_SIZE - MinFrameLen} }

\* garbage without 0xAA, followed by a well-formed frame for this device
GarbageScenarios(id) ==
    { [kind |-> "garbage", garbage |-> g,
       frames |-> <<FrameSpec(id, Remote(id), GET_DEVICE_INFO, <<>>)>>] :
         g \in Garbages }

\* a frame whose type code is undefined, followed by a well-formed frame
UnknownTypeScenarios(id) ==
    { [kind |-> "unknownType", garbage |-> <<>>,
       frames |-> << FrameSpec(id, Remote(id), type, <<>>),
                     FrameSpec(id, Remote(id), LOG_MESSAGE, <<>>) >>] :
         type \in UnknownTypes }

\* a 0xAA that starts no frame, followed at once, or after one more byte,
\* by a well-formed frame for this device
FalseSyncScenarios(id) ==
    { [kind |-> "falseSync", garbage |-> g,
       frames |-> <<FrameSpec(id, Remote(id), GET_DEVICE_INFO, <<>>)>>] :
         g \in {<<170>>, <<170, 0>>} }

\* a header that declares RECEIVE_BUFFER_SIZE - 1 data bytes, followed not
\* by those bytes but by a well-formed frame for this device, the shortest
\* one or one of RECEIVE_BUFFER_SIZE bytes
OversizeScenarios(id) ==
    { [kind |-> "oversize",
       garbage |-> HeaderBytes(Remote(id), id, LOG_MESSAGE,
                               RECEIVE_BUFFER_SIZE - 1),
       frames |-> <<FrameSpec(id, Remote(id), type, p)>>] :
         type \in {GET_DEVICE_INFO},
         p \in {<<>>, [i \in 1..(RECEIVE_BUFFER_SIZE - MinFrameLen) |-> 1]} }

Scenarios(id) ==
    SingleScenarios(id) \cup LongScenarios(id) \cup PairScenarios(id)
        \cup CorruptedScenarios(id)
        \cup GarbageScenarios(id) \cup UnknownTypeScenarios(id)
        \cup FalseSyncScenarios(id) \cup OversizeScenarios(id)

NoScenario == [kind |-> "none", garbage |-> <<>>, frames |-> <<>>]

\* =========================================================================
\* State
\* =========================================================================

VARIABLES
    receiveBuf,     \* EthernetLink.receiveBuf, the CircularBuffer (byteIn)
    packetTool,     \* ControllerHandler.packetTool
    running,        \* FALSE once the process has exited
    wire,           \* bytes sent by the remote device and not yet received
    scenario,       \* what the remote device sends in this behaviour
    ready,          \* history: the packets checkForPacketReady returned true for
    frameBytes,     \* history: the bytes retrieved for the current/last frame
    oneByOne,       \* history: every tick so far received the next single byte
    appended,       \* history: every value passed to append, in call order
    retrieved,      \* history: every value returned by retrieve, in order
    overrun,        \* history: more than bufferSize values were unread at once
    maxUnread,      \* history: the most values that were unread at once
    resets,         \* history: the number of calls of reset made on its own
    link,           \* ControllerHandler.ethernetLink, but for its receiveBuf
    net,            \* the sockets and the remote device, as the link sees them
    connBytes,      \* history: the bytes received on the present connection
    calls,          \* history: the number of calls made on the sending side
    lastOp          \* history: the last call made and how it ended

vars == <<receiveBuf, packetTool, running, wire, scenario, ready, frameBytes,
          oneByOne, appended, retrieved, overrun, maxUnread, resets, link,
          net, connBytes, calls, lastOp>>

linkVars == <<packetTool, running, wire, scenario, ready, frameBytes,
              oneByOne, link, net, connBytes, calls>>

bufferHistory == <<appended, retrieved, overrun, maxUnread, resets>>

\* =========================================================================
\* SpecBuffer: a CircularBuffer of capacity BufferCapacity driven directly
\* =========================================================================

InitBuffer ==
    /\ receiveBuf = CircularBuffer(BufferCapacity)
    /\ packetTool = PacketTool(0)
    /\ running = TRUE
    /\ wire = <<>>
    /\ scenario = NoScenario
    /\ ready = <<>>
    /\ frameBytes = <<>>
    /\ oneByOne = TRUE
    /\ appended = <<>>
    /\ retrieved = <<>>
    /\ overrun = FALSE
    /\ maxUnread = 0
    /\ resets = 0
    /\ link = ConnectedLink
    /\ net = ConnectedNet
    /\ connBytes = <<>>
    /\ calls = 0
    /\ lastOp = [op |-> "init", exc |-> "none"]

DoAppend(v) ==
    /\ Len(appended) < MaxAppends
    /\ receiveBuf' = append(receiveBuf, v)
    /\ appended' = Append(appended, v)
    /\ overrun' = (overrun \/ Len(appended) + 1 - Len(retrieved)
                                  > receiveBuf.bufferSize)
    /\ maxUnread' = Max(maxUnread, Len(appended) + 1 - Len(retrieved))
    /\ lastOp' = [op |-> "append", exc |-> "none", before |-> receiveBuf]
    /\ UNCHANGED <<retrieved, resets, linkVars>>

DoRetrieve ==
    LET r == retrieve(receiveBuf) IN
    /\ receiveBuf' = r.cb
    /\ retrieved' = IF r.exc = "none" THEN Append(retrieved, r.value)
                    ELSE retrieved
    /\ lastOp' = [op |-> "retrieve", exc |-> r.exc, before |-> receiveBuf,
                  value |-> r.value]
    /\ UNCHANGED <<appended, overrun, maxUnread, resets, linkVars>>

DoPeek ==
    /\ receiveBuf' = peek(receiveBuf).cb
    /\ lastOp' = [op |-> "peek", exc |-> peek(receiveBuf).exc,
                  before |-> receiveBuf, value |-> peek(receiveBuf).value]
    /\ UNCHANGED <<bufferHistory, linkVars>>

\* the values stored at pBuffer[pOffset] .. pBuffer[ret - 1]
Stored(pBuffer, pOffset, ret) ==
    [i \in 1..(ret - pOffset) |-> At(pBuffer, pOffset + i - 1)]

\* read into a zeroed array of MaxRead + 2 elements, at offset 0
DoRead(n) ==
    LET r == read(receiveBuf, ZeroArray(MaxRead + 2), 0, n) IN
    /\ receiveBuf' = r.cb
    /\ retrieved' = retrieved \o Stored(r.pBuffer, 0, r.ret)
    /\ lastOp' = [op |-> "read", exc |-> r.exc, before |-> receiveBuf,
                  n |-> n, ret |-> r.ret, stored |-> Stored(r.pBuffer, 0, r.ret)]
    /\ UNCHANGED <<appended, overrun, maxUnread, resets, linkVars>>

\* reset; the histories start again
DoReset ==
    /\ resets < MaxResets
    /\ receiveBuf' = CircularBuffer_reset(receiveBuf)
    /\ appended' = <<>>
    /\ retrieved' = <<>>
    /\ overrun' = FALSE
    /\ maxUnread' = 0
    /\ resets' = resets + 1
    /\ lastOp' = [op |-> "reset", exc |-> "none", before |-> receiveBuf]
    /\ UNCHANGED linkVars

\* the values appended after the e-th reset: 1..MaxValue, e times MaxValue
\* higher
ValuesOfEpoch(e) == { e * MaxValue + v : v \in 1..MaxValue }

NextBuffer ==
    \/ \E v \in ValuesOfEpoch(resets) : DoAppend(v)
    \/ DoRetrieve
    \/ DoPeek
    \/ \E n \in 0..MaxRead : DoRead(n)
    \/ DoReset

SpecBuffer == InitBuffer /\ [][NextBuffer]_vars

\* SpecRead: values are appended to a buffer and read into a zeroed array
\* with room for MaxRead + 1 values after the largest offset
DoReadAt(pOffset, n) ==
    LET r == read(receiveBuf, ZeroArray(MaxOffset + MaxRead + 1), pOffset, n) IN
    /\ receiveBuf' = r.cb
    /\ retrieved' = retrieved \o Stored(r.pBuffer, pOffset, r.ret)
    /\ lastOp' = [op |-> "read", exc |-> r.exc, before |-> receiveBuf,
                  pOffset |-> pOffset, n |-> n, ret |-> r.ret,
                  cells |-> DOMAIN r.pBuffer.cells]
    /\ UNCHANGED <<appended, overrun, maxUnread, resets, linkVars>>

NextRead ==
    \/ \E v \in ValuesOfEpoch(resets) : DoAppend(v)
    \/ \E pOffset \in 0..MaxOffset, n \in 0..MaxRead : DoReadAt(pOffset, n)

SpecRead == InitBuffer /\ [][NextRead]_vars

\* =========================================================================
\* Spec: a connected link; the remote device sends the bytes of a scenario
\* and the host calls doRunTimeTasks again and again
\* =========================================================================

Init ==
    \E id \in ThisDeviceIdentifiers : \E sc \in Scenarios(id) :
        /\ receiveBuf = CircularBuffer(RECEIVE_BUFFER_SIZE)
        /\ packetTool = PacketTool(id)
        /\ running = TRUE
        /\ wire = Stream(sc)
        /\ scenario = sc
        /\ ready = <<>>
        /\ frameBytes = <<>>
        /\ oneByOne = TRUE
        /\ appended = <<>>
        /\ retrieved = <<>>
        /\ overrun = FALSE
        /\ maxUnread = 0
        /\ resets = 0
        /\ link = ConnectedLink
        /\ net = ConnectedNet
        /\ connBytes = <<>>
        /\ calls = 0
        /\ lastOp = [op |-> "init", exc |-> "none"]

\* the packet the accessors of packetTool describe
PacketOf(pt) ==
    [dest    |-> pt.destDeviceIdentifierFromReceivedPkt,
     src     |-> pt.sourceDeviceIdentifierFromReceivedPkt,
     type    |-> pt.pktType,
     len     |-> pt.numPktDataBytes,
     payload |-> [i \in 1..pt.numPktDataBytes |-> At(pt.inBuffer, i - 1)]]

\* the return statements of checkForPacketReady after byteIn.read
CompletedLines == {243, 251, 253}

\* the number of bytes that follow a header: the payload length its bytes
\* 6 and 7 declare, and the checksum byte
TrailingBytes(hdr) == 256 * hdr[HeaderLen - 1] + hdr[HeaderLen] + 1

\* hdr, and the bytes of bytes that belong to its frame, as far as they are
\* there
WithTrailingBytes(hdr, bytes) ==
    hdr \o SubSeq(bytes, 1, Min(Len(bytes), TrailingBytes(hdr)))

\* the bytes of the frame a call of checkForPacketReady (r) has retrieved so
\* far, pre being what byteIn held at the call: the seven header bytes when
\* the call (or an earlier one) found a header, and the payload and checksum
\* bytes when the call went on to read
FrameBytesAfter(pt, pre, r) ==
    IF r.line \in CompletedLines
    THEN IF pt.headerValid THEN WithTrailingBytes(frameBytes, pre)
         ELSE WithTrailingBytes(SubSeq(pre, 1, HeaderLen),
                                SubSeq(pre, HeaderLen + 1, Len(pre)))
    ELSE IF r.line = 236 /\ ~pt.headerValid THEN SubSeq(pre, 1, HeaderLen)
    ELSE frameBytes

\* the effects of a call of doRunTimeTasks (t) in which the first k bytes of
\* wire were received, cbIn being receiveBuf as handleReceive left it
TickEffects(k, cbIn, t) ==
    /\ receiveBuf' = t.cb
    /\ packetTool' = t.pt
    /\ running' = (t.exc # "SystemExit")
    /\ wire' = SubSeq(wire, k + 1, Len(wire))
    /\ ready' = IF t.poll.exc = "none" /\ t.poll.ret
                THEN Append(ready, PacketOf(t.pt)) ELSE ready
    /\ frameBytes' = FrameBytesAfter(packetTool, Contents(cbIn), t.poll)
    /\ oneByOne' = (oneByOne /\ (k = 1 \/ wire = <<>>))
    /\ lastOp' = [op          |-> "tick",
                  exc         |-> t.exc,
                  ret         |-> t.ret,
                  pollExc     |-> t.poll.exc,
                  pollRet     |-> t.poll.ret,
                  line        |-> t.poll.line,
                  headerValid |-> packetTool.headerValid,
                  available   |-> available(cbIn),
                  before      |-> packetTool,
                  pumped      |-> cbIn]
    /\ UNCHANGED <<scenario, calls, bufferHistory, link, net, connBytes>>

\* one call of doRunTimeTasks in which k bytes are immediately available
Tick(k) ==
    /\ running
    /\ TickEffects(k, handleReceive(receiveBuf, SubSeq(wire, 1, k)),
                   doRunTimeTasks(packetTool, receiveBuf, SubSeq(wire, 1, k)))

Next == \E k \in 0..Len(wire) : Tick(k)

Spec == Init /\ [][Next]_vars

\* =========================================================================
\* SpecLink: a link from its construction on; remote devices request
\* connections, send bytes, close or reset the connection or stop taking
\* what is sent; the host calls doRunTimeTasks and, at any time, disconnect
\* =========================================================================

\* what a remote device sends on a connection: the first bytes of a header,
\* a header whose payload does not follow, what follows either, or a
\* complete frame
Scripts(id) ==
    { SubSeq(FrameBytes(FrameSpec(id, Remote(id), GET_DEVICE_INFO, <<>>)),
             1, 3),
      SubSeq(FrameBytes(FrameSpec(id, Remote(id), GET_DEVICE_INFO, <<>>)),
             4, MinFrameLen),
      SubSeq(FrameBytes(FrameSpec(id, Remote(id), LOG_MESSAGE, <<1>>)),
             1, HeaderLen),
      SubSeq(FrameBytes(FrameSpec(id, Remote(id), LOG_MESSAGE, <<1>>)),
             HeaderLen + 1, MinFrameLen + 1),
      FrameBytes(FrameSpec(id, Remote(id), GET_DEVICE_INFO, <<>>)),
      FrameBytes(FrameSpec(id, Remote(id), LOG_MESSAGE, <<1>>)) }

LinkScenario == [kind |-> "link", garbage |-> <<>>, frames |-> <<>>]

InitLink ==
    \E id \in ThisDeviceIdentifiers :
        /\ receiveBuf = CircularBuffer(RECEIVE_BUFFER_SIZE)
        /\ packetTool = PacketTool(id)
        /\ running = TRUE
        /\ wire = <<>>
        /\ scenario = LinkScenario
        /\ ready = <<>>
        /\ frameBytes = <<>>
        /\ oneByOne = TRUE
        /\ appended = <<>>
        /\ retrieved = <<>>
        /\ overrun = FALSE
        /\ maxUnread = 0
        /\ resets = 0
        /\ link = EthernetLink
        /\ net = Network
        /\ connBytes = <<>>
        /\ calls = 0
        /\ lastOp = [op |-> "init", exc |-> "none"]

\* the host's objects and the network, as a call finds them
Before ==
    [pt |-> packetTool, cb |-> receiveBuf, link |-> link, net |-> net,
     wire |-> wire]

\* the client socket is an open socket
ClientSocketOpen ==
    link.clientSocket # None /\ net.sockets[link.clientSocket] = "open"

hostVars == <<receiveBuf, packetTool, link, ready, frameBytes, connBytes>>

\* a remote device requests a connection
RequestConnection ==
    /\ net.pending = 0
    /\ Len(net.sockets) < MaxConnections
    /\ net' = [net EXCEPT !.pending = 1]
    /\ lastOp' = [op |-> "remote", exc |-> "none"]
    /\ UNCHANGED <<hostVars, wire, running, scenario, calls, oneByOne, bufferHistory>>

\* the remote device whose connection is open, or waits to be accepted while
\* none is open, sends its bytes
RemoteSend(script) ==
    /\ ClientSocketOpen \/ net.pending > 0
    /\ ~net.sent
    /\ net.peer = "open"
    /\ wire' = script
    /\ net' = [net EXCEPT !.sent = TRUE]
    /\ lastOp' = [op |-> "remote", exc |-> "none"]
    /\ UNCHANGED <<hostVars, running, scenario, calls, oneByOne, bufferHistory>>

\* the remote device closes or resets the open connection
PeerEnds(how) ==
    /\ ClientSocketOpen
    /\ net.peer = "open"
    /\ net' = [net EXCEPT !.peer = how]
    /\ lastOp' = [op |-> "remote", exc |-> "none"]
    /\ UNCHANGED <<hostVars, wire, running, scenario, calls, oneByOne, bufferHistory>>

\* from now on send on the client socket returns 0
SendStalls ==
    /\ ClientSocketOpen
    /\ net.sendOk
    /\ net' = [net EXCEPT !.sendOk = FALSE]
    /\ lastOp' = [op |-> "remote", exc |-> "none"]
    /\ UNCHANGED <<hostVars, wire, running, scenario, calls, oneByOne, bufferHistory>>

\* the effects of a call of ControllerHandler.doRunTimeTasks (t) that found
\* the first k bytes of wire immediately available; p is what
\* ethernetLink.doRunTimeTasks did when it was called
LinkTickEffects(k, p, t) ==
    /\ receiveBuf' = t.cb
    /\ packetTool' = t.pt
    /\ link' = t.link
    /\ net' = t.net
    /\ running' = (t.exc # "SystemExit")
    /\ wire' = IF t.disconnected THEN <<>> ELSE SubSeq(wire, k + 1, Len(wire))
    /\ ready' = IF t.poll.exc = "none" /\ t.poll.ret
                THEN Append(ready, PacketOf(t.poll.pt)) ELSE ready
    /\ frameBytes' = FrameBytesAfter(packetTool, Contents(p.cb), t.poll)
    /\ connBytes' = IF t.disconnected THEN <<>>
                    ELSE connBytes \o SubSeq(wire, 1, k)
    /\ lastOp' = [op      |-> "linkTick",
                  exc     |-> t.exc,
                  ret     |-> t.ret,
                  pollExc |-> t.poll.exc,
                  pollRet |-> t.poll.ret,
                  line    |-> t.poll.line,
                  before  |-> Before,
                  data    |-> SubSeq(wire, 1, k),
                  pumped  |-> p.cb,
                  received |-> connBytes \o SubSeq(wire, 1, k),
                  written |-> t.written]
    /\ UNCHANGED <<scenario, calls, oneByOne, bufferHistory>>

\* one call of ControllerHandler.doRunTimeTasks; when connected, k bytes are
\* immediately available, all that were sent when the remote end has closed
LinkTick(k) ==
    /\ running
    /\ ~link.connected => k = 0
    /\ (link.connected /\ net.peer = "closed") => k = Len(wire)
    /\ LinkTickEffects(k,
           EthernetLink_doRunTimeTasks(link, receiveBuf, SubSeq(wire, 1, k),
                                       net.peer),
           ControllerHandler_doRunTimeTasks(packetTool, receiveBuf, link, net,
                                            SubSeq(wire, 1, k)))

\* the effects of a call of disconnect (d); the bytes sent on a socket are
\* lost when it is closed
DisconnectEffects(op, pt, d) ==
    /\ packetTool' = pt
    /\ receiveBuf' = d.cb
    /\ link' = d.link
    /\ net' = d.net
    /\ wire' = IF ClientSocketOpen THEN <<>> ELSE wire
    /\ connBytes' = <<>>
    /\ lastOp' = [op |-> op, exc |-> d.exc, ret |-> d.ret, before |-> Before]
    /\ UNCHANGED <<ready, frameBytes, running, scenario, calls, oneByOne,
                   bufferHistory>>

\* the host calls ControllerHandler.disconnect
CallDisconnect ==
    /\ running
    /\ DisconnectEffects("disconnect",
           ControllerHandler_disconnect(packetTool, receiveBuf, link, net).pt,
           ControllerHandler_disconnect(packetTool, receiveBuf, link, net))

\* EthernetLink.disconnect is called while the link is not connected
CallLinkDisconnect ==
    /\ running
    /\ ~link.connected
    /\ DisconnectEffects("linkDisconnect", packetTool,
           EthernetLink_disconnect(link, receiveBuf, net))

\* the effects of a call of connectToRemoteIfRequestPending (r)
ConnectEffects(r) ==
    /\ link' = r.link
    /\ net' = r.net
    /\ lastOp' = [op |-> "connect", exc |-> "none", ret |-> r.ret,
                  before |-> Before]
    /\ UNCHANGED <<receiveBuf, packetTool, ready, frameBytes, connBytes, wire,
                   running, scenario, calls, oneByOne, bufferHistory>>

\* EthernetLink.connectToRemoteIfRequestPending is called while the link is
\* connected
CallConnect ==
    /\ running
    /\ link.connected
    /\ ConnectEffects(connectToRemoteIfRequestPending(link, net))

\* the effects of a call of EthernetLink.doRunTimeTasks (p)
PumpEffects(p) ==
    /\ receiveBuf' = p.cb
    /\ wire' = SubSeq(wire, p.taken + 1, Len(wire))
    /\ lastOp' = [op |-> "pump", exc |-> p.exc, before |-> Before,
                  data |-> wire, pumped |-> p.cb]
    /\ UNCHANGED <<packetTool, link, net, ready, frameBytes, connBytes,
                   running, scenario, calls, oneByOne, bufferHistory>>

\* EthernetLink.doRunTimeTasks is called while the link is not connected
CallPump ==
    /\ running
    /\ ~link.connected
    /\ PumpEffects(EthernetLink_doRunTimeTasks(link, receiveBuf, wire,
                                               net.peer))

\* PacketTool.checkForPacketReady is called before any connection has been
\* accepted, so before setStreams
CallCheckForPacketReady ==
    LET r == checkForPacketReadyWithoutStreams(packetTool) IN
    /\ running
    /\ net.sockets = <<>>
    /\ packetTool' = r.pt
    /\ lastOp' = [op |-> "poll", exc |-> r.exc, ret |-> r.ret,
                  line |-> r.line, before |-> Before]
    /\ UNCHANGED <<receiveBuf, link, net, ready, frameBytes, connBytes, wire,
                   running, scenario, calls, oneByOne, bufferHistory>>

NextLink ==
    \/ RequestConnection
    \/ \E script \in Scripts(packetTool.thisDeviceIdentifier) :
           RemoteSend(script)
    \/ \E how \in {"closed", "reset"} : PeerEnds(how)
    \/ SendStalls
    \/ \E k \in 0..Len(wire) : LinkTick(k)
    \/ CallDisconnect
    \/ CallLinkDisconnect
    \/ CallConnect
    \/ CallPump
    \/ CallCheckForPacketReady

SpecLink == InitLink /\ [][NextLink]_vars

\* =========================================================================
\* SpecOrder: a link from its construction on, to which one remote device
\* connects and sends two packets at once; the host calls doRunTimeTasks
\* =========================================================================

\* two frames for device id back to back, and the same with one byte
\* between them
PairScripts(id) ==
    { FrameBytes(FrameSpec(id, Remote(id), LOG_MESSAGE, <<1>>))
          \o FrameBytes(FrameSpec(id, Remote(id), GET_DEVICE_INFO, <<>>)),
      FrameBytes(FrameSpec(id, Remote(id), LOG_MESSAGE, <<1>>))
          \o <<0>>
          \o FrameBytes(FrameSpec(id, Remote(id), GET_DEVICE_INFO, <<>>)) }

\* the first remote device requests a connection
FirstRequest == net.sockets = <<>> /\ RequestConnection

NextOrder ==
    \/ FirstRequest
    \/ \E script \in PairScripts(packetTool.thisDeviceIdentifier) :
           RemoteSend(script)
    \/ \E how \in {"closed", "reset"} : PeerEnds(how)
    \/ \E k \in 0..Len(wire) : LinkTick(k)

SpecOrder == InitLink /\ [][NextOrder]_vars

\* =========================================================================
\* SpecEndToEnd: clients connect to the device one after the other; each
\* sends a GET_DEVICE_INFO packet and closes the connection when the reply
\* has been sent to it; the main loop calls doRunTimeTasks for ever
\* =========================================================================

\* the GET_DEVICE_INFO packet a client sends to device id
GetDeviceInfoRequest(id) ==
    FrameBytes(FrameSpec(id, Remote(id), GET_DEVICE_INFO, <<>>))

\* the number of requests clients have sent: one on each connection that
\* was closed, and the one of the client that has not been answered yet
RequestsSent ==
    Cardinality({s \in 1..Len(net.sockets) : net.sockets[s] = "closed"})
        + (IF net.sent THEN 1 ELSE 0)

\* a client sends its request
ClientSendsRequest ==
    RemoteSend(GetDeviceInfoRequest(packetTool.thisDeviceIdentifier))

\* the client closes the connection on which it has been answered
ClientCloses ==
    /\ Len(ready) = RequestsSent
    /\ net.sent
    /\ PeerEnds("closed")

\* a call of doRunTimeTasks in the main loop: of the bytes sent on the
\* connection, at least one has arrived
LoopTick ==
    \E k \in 0..Len(wire) :
        /\ k > 0 \/ wire = <<>> \/ ~link.connected
        /\ LinkTick(k)

\* a call of doRunTimeTasks (t) to which k bytes are available changes the
\* state
TickChanges(t, k) ==
    \/ k > 0
    \/ lastOp.op # "linkTick"
    \/ <<t.cb, t.pt, t.link, t.net>> # <<receiveBuf, packetTool, link, net>>

\* LoopTick is enabled and changes the state
TickPending ==
    /\ running
    /\ \E k \in 0..Len(wire) :
           /\ k > 0 \/ wire = <<>> \/ ~link.connected
           /\ ~link.connected => k = 0
           /\ (link.connected /\ net.peer = "closed") => k = Len(wire)
           /\ TickChanges(
                  ControllerHandler_doRunTimeTasks(packetTool, receiveBuf,
                      link, net, SubSeq(wire, 1, k)), k)

NextEndToEnd ==
    \/ RequestConnection
    \/ ClientSendsRequest
    \/ ClientCloses
    \/ LoopTick

\* the main loop never stops calling doRunTimeTasks, and the bytes sent on a
\* connection arrive: a call that changes the state is not put off for ever.
\* TickPending implies ENABLED <<LoopTick>>_vars, so that weak fairness of
\* LoopTick, WF_vars(LoopTick), implies LoopFairness
LoopFairness == []<>(~TickPending) \/ []<><<LoopTick>>_vars

SpecEndToEnd == InitLink /\ [][NextEndToEnd]_vars /\ LoopFairness

\* =========================================================================
\* SpecSend: one call on the sending side of a PacketTool, new or used
\* before: prepareHeader, sendString or sendOutBuffer, on a transport that
\* takes all, part or none of what a write offers
\* =========================================================================

\* the bytes of the texts
TextBytes == {124, 125}

\* the longest text sendString sends whole: what outBuffer has room for
\* between the header and the two last slots it uses
RoomForText == OUT_BUFFER_SIZE - 2 - 7

\* the short texts, encoded
ShortTexts == UNION { [1..n -> TextBytes] : n \in 0..MaxTextLen }

\* texts that just fit and texts that do not
LongTexts ==
    { [i \in 1..n |-> 124] : n \in (RoomForText - 1)..(RoomForText + MaxExcess) }

\* the destinations and types of the packets sent
DestAddresses == {0, 2}

SentTypes == {GET_DEVICE_INFO, LOG_MESSAGE}

\* the payload lengths prepareHeader is called with
NumDataBytes == {0, 1, 258, 65535, 65537}

\* how the transport behaves in the first writes of a call: how many bytes
\* it takes in each
Accepts == UNION { [1..n -> 0..MaxAccept] : n \in 0..2 }

\* the packet tools a call on the sending side finds: a new one, and one
\* whose outBuffer an earlier sendString of a short text has left
PacketToolsSending(id) ==
    {PacketTool(id)}
        \cup { sendString(PacketTool(id), Remote(id), LOG_MESSAGE, m, <<>>).pt :
                   m \in ShortTexts }

InitSend ==
    \E id \in ThisDeviceIdentifiers :
        /\ receiveBuf = CircularBuffer(RECEIVE_BUFFER_SIZE)
        /\ packetTool \in PacketToolsSending(id)
        /\ running = TRUE
        /\ wire = <<>>
        /\ scenario = NoScenario
        /\ ready = <<>>
        /\ frameBytes = <<>>
        /\ oneByOne = TRUE
        /\ appended = <<>>
        /\ retrieved = <<>>
        /\ overrun = FALSE
        /\ maxUnread = 0
        /\ resets = 0
        /\ link = ConnectedLink
        /\ net = ConnectedNet
        /\ connBytes = <<>>
        /\ calls = 0
        /\ lastOp = [op |-> "init", exc |-> "none"]

receiveVars == <<receiveBuf, running, wire, scenario, ready, frameBytes,
                 oneByOne, bufferHistory, link, net, connBytes>>

\* the effects of a call of prepareHeader (h)
PrepareHeaderEffects(pDestAddress, pPacketType, pNumDataBytes, h) ==
    /\ packetTool' = [packetTool EXCEPT !.outBuffer = h.outBuffer]
    /\ calls' = calls + 1
    /\ lastOp' = [op |-> "prepareHeader", exc |-> "none", ret |-> h.x,
                  dest |-> pDestAddress, type |-> pPacketType,
                  n |-> pNumDataBytes, before |-> packetTool.outBuffer]
    /\ UNCHANGED receiveVars

CallPrepareHeader(pDestAddress, pPacketType, pNumDataBytes) ==
    /\ calls = 0
    /\ PrepareHeaderEffects(pDestAddress, pPacketType, pNumDataBytes,
           prepareHeader(packetTool.outBuffer, packetTool.thisDeviceIdentifier,
                         pDestAddress, pPacketType, pNumDataBytes))

\* the effects of a call of sendString (r)
SendStringEffects(pDestAddress, pPacketType, msgBytes, accepts, r) ==
    /\ packetTool' = r.pt
    /\ calls' = calls + 1
    /\ lastOp' = [op |-> "sendString", exc |-> r.exc, ret |-> r.ret,
                  written |-> r.written, writes |-> r.writes, x |-> r.x,
                  dest |-> pDestAddress, type |-> pPacketType,
                  msgBytes |-> msgBytes, accepts |-> accepts,
                  before |-> packetTool.outBuffer]
    /\ UNCHANGED receiveVars

CallSendString(pDestAddress, pPacketType, msgBytes, accepts) ==
    /\ calls = 0
    /\ SendStringEffects(pDestAddress, pPacketType, msgBytes, accepts,
           sendString(packetTool, pDestAddress, pPacketType, msgBytes,
                      accepts))

\* the effects of a call of sendOutBuffer (r)
SendOutBufferEffects(pNumBytesToSend, accepts, r) ==
    /\ calls' = calls + 1
    /\ lastOp' = [op |-> "sendOutBuffer", exc |-> r.exc, ret |-> r.ret,
                  written |-> r.written, writes |-> r.writes,
                  n |-> pNumBytesToSend, accepts |-> accepts,
                  before |-> packetTool.outBuffer]
    /\ UNCHANGED <<packetTool, receiveVars>>

CallSendOutBuffer(pNumBytesToSend, accepts) ==
    /\ calls = 0
    /\ SendOutBufferEffects(pNumBytesToSend, accepts,
           sendOutBuffer(packetTool.outBuffer, pNumBytesToSend, accepts))

NextSend ==
    \/ \E d \in DestAddresses, t \in SentTypes, n \in NumDataBytes :
           CallPrepareHeader(d, t, n)
    \/ \E d \in DestAddresses, t \in SentTypes, m \in ShortTexts,
          a \in {<<>>, <<0>>, <<MaxAccept>>} :
           CallSendString(d, t, m, a)
    \/ \E m \in LongTexts :
           CallSendString(Remote(packetTool.thisDeviceIdentifier),
                          LOG_MESSAGE, m, <<>>)
    \/ \E n \in 0..MaxSendLen, a \in Accepts : CallSendOutBuffer(n, a)

SpecSend == InitSend /\ [][NextSend]_vars

\* =========================================================================
\* SpecParse: the payload of a packet is in inBuffer; the handlers parse
\* fields of it, and signExtend is applied to values of any size
\* =========================================================================

\* the more and the less significant bytes of the 16 bit values of a payload
HighBytes == {0, 128, 255}

LowBytes == {100, 101, 127}

\* the length of a duplex field: a 16 bit value and its copy
DuplexLen == 4

\* the duplex fields of a payload: a value and what is in the place of its
\* copy
DuplexFields ==
    { <<h, l, hc, lc>> : h \in HighBytes, l \in LowBytes,
                         hc \in HighBytes, lc \in LowBytes }

\* the values signExtend is given: small ones of either sign, the ends of
\* the ranges of 8 and 16 bits, and values with bits above the 16th
RawValues ==
    (-MaxRaw..MaxRaw)
        \cup {127, 128, 255, 256, 32767, 32768, 65535, 65536, 98304, -32769}

\* the numbers of bits signExtend is given
Widths == (1..MaxBits) \cup {8, 16}

InitParse ==
    \E id \in ThisDeviceIdentifiers, payload \in DuplexFields :
        /\ receiveBuf = CircularBuffer(RECEIVE_BUFFER_SIZE)
        /\ packetTool = [PacketTool(id) EXCEPT
                             !.inBuffer = PutAll(@, 0, payload)]
        /\ running = TRUE
        /\ wire = <<>>
        /\ scenario = NoScenario
        /\ ready = <<>>
        /\ frameBytes = <<>>
        /\ oneByOne = TRUE
        /\ appended = <<>>
        /\ retrieved = <<>>
        /\ overrun = FALSE
        /\ maxUnread = 0
        /\ resets = 0
        /\ link = ConnectedLink
        /\ net = ConnectedNet
        /\ connBytes = <<>>
        /\ calls = 0
        /\ lastOp = [op |-> "init", exc |-> "none"]

\* the effects of a call of one of the parsers (r) at pIndex
ParseEffects(op, pIndex, r) ==
    /\ lastOp' = [op |-> op, exc |-> "none", pIndex |-> pIndex,
                  status |-> r.status, index |-> r.index, value |-> r.value]
    /\ UNCHANGED <<packetTool, calls, receiveVars>>

CallParseDuplexInteger(pIndex) ==
    ParseEffects("parseDuplexIntegerFromPacket", pIndex,
                 parseDuplexIntegerFromPacket(packetTool, pIndex))

CallParseUnsignedByte(pIndex) ==
    ParseEffects("parseUnsignedByteFromPacket", pIndex,
                 parseUnsignedByteFromPacket(packetTool, pIndex))

CallSignExtend(pValue, pBits) ==
    /\ lastOp' = [op |-> "signExtend", exc |-> "none", pValue |-> pValue,
                  pBits |-> pBits, ret |-> signExtend(pValue, pBits)]
    /\ UNCHANGED <<packetTool, calls, receiveVars>>

NextParse ==
    \/ \E pIndex \in 0..MaxCursor : CallParseDuplexInteger(pIndex)
    \/ \E pIndex \in 0..(MaxCursor + DuplexLen - 1) :
           CallParseUnsignedByte(pIndex)
    \/ \E pValue \in RawValues, pBits \in Widths :
           CallSignExtend(pValue, pBits)

SpecParse == InitParse /\ [][NextParse]_vars

\* =========================================================================
\* SpecMove: the payload of a MOVE_BY_DISTANCE_AND_TIME packet is in
\* inBuffer and handleMoveByDistanceAndTimePacket is called
\* =========================================================================

\* a duplex field of a move packet: 0, 5 and -5 with their copies, and 5
\* with a copy that differs
MoveFields ==
    { <<0, 0, 0, 0>>, <<0, 5, 0, 5>>, <<255, 251, 255, 251>>,
      <<0, 5, 0, 6>> }

\* distance, duration, left speed and right speed
MovePayloads ==
    { d \o t \o l \o r : d \in MoveFields, t \in MoveFields,
                          l \in MoveFields, r \in MoveFields }

InitMove ==
    \E id \in ThisDeviceIdentifiers, payload \in MovePayloads :
        /\ receiveBuf = CircularBuffer(RECEIVE_BUFFER_SIZE)
        /\ packetTool = [PacketTool(id) EXCEPT
                             !.inBuffer = PutAll(@, 0, payload)]
        /\ running = TRUE
        /\ wire = <<>>
        /\ scenario = NoScenario
        /\ ready = <<>>
        /\ frameBytes = <<>>
        /\ oneByOne = TRUE
        /\ appended = <<>>
        /\ retrieved = <<>>
        /\ overrun = FALSE
        /\ maxUnread = 0
        /\ resets = 0
        /\ link = ConnectedLink
        /\ net = ConnectedNet
        /\ connBytes = <<>>
        /\ calls = 0
        /\ lastOp = [op |-> "init", exc |-> "none"]

\* the absolute value
Abs(n) == IF n < 0 THEN -n ELSE n

\* a call of handleMoveByDistanceAndTimePacket whose loop makes passes passes
HandleMove(passes) ==
    LET r == moveByDistanceAndTime(packetTool, passes) IN
    /\ passes \in Passes(
           Abs(parseDuplexIntegerFromPacket(packetTool, 0).value),
           parseDuplexIntegerFromPacket(packetTool, 4).value)
    /\ lastOp' = [op |-> "move", exc |-> r.exc, ret |-> r.ret,
                  motor |-> r.motor, passes |-> passes]
    /\ UNCHANGED <<packetTool, calls, receiveVars>>

NextMove == \E passes \in 1..MaxPasses : HandleMove(passes)

SpecMove == InitMove /\ [][NextMove]_vars

\* --------------------------------------------------------------------------
\* Properties of the ring buffer (SpecBuffer)
\* --------------------------------------------------------------------------

\* C8: available() is the number of appends minus the number of successful
\* retrieves, clamped to the range 0..bufferSize.
C8_AvailableIsClampedDifference ==
    available(receiveBuf)
        = Max(0, Min(BufferCapacity, Len(appended) - Len(retrieved)))

\* C9: after more than bufferSize appends and no retrieve, available() is
\* bufferSize and the values still to be retrieved are the most recent
\* bufferSize values appended, oldest first.
C9_OverrunKeepsNewest ==
    (retrieved = <<>> /\ Len(appended) > BufferCapacity)
        => /\ available(receiveBuf) = BufferCapacity
           /\ Contents(receiveBuf) = LastN(appended, BufferCapacity)

\* C10: while the number of unread values has never exceeded bufferSize
\* (exactly bufferSize included), the values retrieved so far followed by the
\* values still to be retrieved are the values appended, in append order.
C10_FifoUpToCapacity ==
    ~overrun => retrieved \o Contents(receiveBuf) = appended

\* C11: in every state of a CircularBuffer, after any sequence of append,
\* retrieve, peek, read and reset, available() is between 0 and bufferSize
\* and both indices are indices of the storage array.
C11_AvailableAndIndicesInRange ==
    /\ available(receiveBuf) \in 0..receiveBuf.bufferSize
    /\ receiveBuf.nextInsertIndex \in DOMAIN receiveBuf.buffer
    /\ receiveBuf.nextRetrieveIndex \in DOMAIN receiveBuf.buffer

\* a read has left the insert index, which has wrapped, behind the retrieve
\* index
C11_Witness ==
    /\ lastOp.op = "read"
    /\ receiveBuf.nextInsertIndex < receiveBuf.nextRetrieveIndex

\* C12: retrieve() and peek() on a buffer whose available() is 0 raise
\* NoBytesAvailable and leave the buffer as it was.
C12_EmptyRaisesAndChangesNothing ==
    (lastOp.op \in {"retrieve", "peek"} /\ available(lastOp.before) = 0)
        => /\ lastOp.exc = "NoBytesAvailable"
           /\ receiveBuf = lastOp.before

\* retrieve was called after the buffer had been drained
C12_Witness ==
    /\ lastOp.op = "retrieve"
    /\ lastOp.exc = "NoBytesAvailable"
    /\ retrieved # <<>>

\* C13: peek() leaves the buffer as it was; a second peek() returns the same
\* value, and so does a retrieve() after it, which lowers available() by
\* exactly one.
C13_PeekChangesNothing ==
    lastOp.op = "peek" =>
        /\ receiveBuf = lastOp.before
        /\ lastOp.exc = "none" =>
             /\ peek(receiveBuf).exc = "none"
             /\ peek(receiveBuf).value = lastOp.value
             /\ retrieve(receiveBuf).exc = "none"
             /\ retrieve(receiveBuf).value = lastOp.value
             /\ available(retrieve(receiveBuf).cb) = available(receiveBuf) - 1

\* peek has returned the oldest of several unread values
C13_Witness ==
    /\ lastOp.op = "peek"
    /\ lastOp.exc = "none"
    /\ available(receiveBuf) > 1

\* C14: read(buf, offset, n) raises nothing, removes exactly
\* min(n, available()) values, the oldest, and stores them in FIFO order.
C14_ReadRemovesAtMostN ==
    lastOp.op = "read" =>
        /\ lastOp.exc = "none"
        /\ available(lastOp.before) - available(receiveBuf)
               = Min(lastOp.n, available(lastOp.before))
        /\ lastOp.stored = SubSeq(Contents(lastOp.before), 1,
                                  Min(lastOp.n, available(lastOp.before)))

\* s is t with some of its elements left out
RECURSIVE IsSubsequence(_, _)
IsSubsequence(s, t) ==
    IF s = <<>> THEN TRUE
    ELSE IF t = <<>> THEN FALSE
    ELSE IF Head(s) = Head(t) THEN IsSubsequence(Tail(s), Tail(t))
    ELSE IsSubsequence(s, Tail(t))

\* C15: straight after reset() available() is 0 and retrieve() raises
\* NoBytesAvailable; the values retrieved after a reset are values appended
\* after it, in the order they were appended, and all of them while fewer
\* than bufferSize values have been unread at once.
C15_ResetEmptiesTheBuffer ==
    /\ lastOp.op = "reset" =>
         /\ available(receiveBuf) = 0
         /\ retrieve(receiveBuf).exc = "NoBytesAvailable"
    /\ resets > 0 =>
         /\ \A i \in 1..Len(retrieved) : retrieved[i] \in ValuesOfEpoch(resets)
         /\ IsSubsequence(retrieved, appended)
         /\ maxUnread < receiveBuf.bufferSize =>
              retrieved \o Contents(receiveBuf) = appended

\* values appended after a reset have been retrieved while the storage array
\* still holds a value appended before it
C15_Witness ==
    /\ resets > 0
    /\ Len(retrieved) > 1
    /\ \E i \in DOMAIN receiveBuf.buffer :
           receiveBuf.buffer[i] \in ValuesOfEpoch(resets - 1)

\* --------------------------------------------------------------------------
\* Properties of the packet parser and the receive loop (Spec)
\* --------------------------------------------------------------------------

\* the last step was a call of doRunTimeTasks whose checkForPacketReady read
\* the payload and checksum of a packet
PacketCompleted == lastOp.op = "tick" /\ lastOp.line \in CompletedLines

\* the last call of checkForPacketReady returned true
ReportedReady ==
    lastOp.op = "tick" /\ lastOp.pollExc = "none" /\ lastOp.pollRet

\* C1: a completed packet is reported ready if and only if the destination
\* id of its header is this device's id and the sum of all of its bytes,
\* header through checksum byte, is 0 modulo 256; nothing but a completed
\* packet is reported ready.
C1_ReadyIffAddressedAndChecksumZero ==
    /\ ReportedReady => PacketCompleted
    /\ PacketCompleted =>
         (ReportedReady <=>
            /\ frameBytes[3] = packetTool.thisDeviceIdentifier
            /\ SumSeq(frameBytes) % 256 = 0)

\* a packet with a payload has been reported ready
C1_Witness ==
    /\ PacketCompleted
    /\ ReportedReady
    /\ lastOp.line = 253
    /\ Len(frameBytes) > MinFrameLen

\* the scenario is one frame this device built with its own prepareHeader
\* for itself, and it has arrived one byte per call so far
RoundTrip ==
    /\ scenario.kind = "single"
    /\ scenario.frames[1].dest = packetTool.thisDeviceIdentifier
    /\ oneByOne

\* the packet a frame describes
PacketSent(f) ==
    [dest |-> f.dest, src |-> f.src, type |-> f.type,
     len |-> Len(f.payload), payload |-> f.payload]

\* C2: a frame encoded with prepareHeader, payload and checksum and fed to a
\* fresh parser one byte per call is reported ready exactly once, when its
\* last byte has been fed, with the destination, source, type, length and
\* payload it was encoded from.
C2_RoundTripByteAtATime ==
    RoundTrip =>
        /\ Len(ready) = (IF wire = <<>> THEN 1 ELSE 0)
        /\ \A i \in 1..Len(ready) : ready[i] = PacketSent(scenario.frames[1])

\* a frame with a payload has made the round trip, and a further call has
\* found nothing more
C2_Witness ==
    /\ RoundTrip
    /\ wire = <<>>
    /\ Len(ready) = 1
    /\ ready[1].len > 0
    /\ lastOp.op = "tick"
    /\ ~lastOp.pollRet

\* the packets of acc, and the one a call of doRunTimeTasks (t) reported
WithReported(acc, t) ==
    IF t.poll.exc = "none" /\ t.poll.ret THEN Append(acc, PacketOf(t.pt))
    ELSE acc

\* the packets reported when bytes arrive one per call of doRunTimeTasks and
\* the calls go on until one changes nothing; t is the call made in the
\* state (pt, cb)
RECURSIVE RunOneByOne(_, _, _, _)
RECURSIVE AfterOneByOne(_, _, _, _, _)
AfterOneByOne(pt, cb, bytes, acc, t) ==
    IF t.exc = "SystemExit" THEN WithReported(acc, t)
    ELSE IF bytes = <<>> /\ t.pt = pt /\ t.cb = cb THEN acc
    ELSE RunOneByOne(t.pt, t.cb,
                     IF bytes = <<>> THEN <<>> ELSE Tail(bytes),
                     WithReported(acc, t))

RunOneByOne(pt, cb, bytes, acc) ==
    AfterOneByOne(pt, cb, bytes, acc,
                  doRunTimeTasks(pt, cb, IF bytes = <<>> THEN <<>>
                                         ELSE <<Head(bytes)>>))

\* type, length and payload of each packet of a sequence
Triples(packets) ==
    [i \in 1..Len(packets) |->
        [type |-> packets[i].type, len |-> packets[i].len,
         payload |-> packets[i].payload]]

\* a call of checkForPacketReady (r) leaves the parser and the receive
\* buffer as they are
ChangesNothing(r) == r.pt = packetTool /\ r.cb = receiveBuf

\* every byte has been received and further calls find nothing more
Settled ==
    /\ wire = <<>>
    /\ (~running \/ ChangesNothing(checkForPacketReady(packetTool, receiveBuf)))

\* C3: however a byte stream shorter than RECEIVE_BUFFER_SIZE is split across
\* calls of doRunTimeTasks, the sequence of (type, length, payload) reported
\* ready is the one reported when the same bytes arrive one per call.
C3_ChunkingIndependent ==
    (Len(Stream(scenario)) < RECEIVE_BUFFER_SIZE /\ Settled) =>
        Triples(ready) =
            Triples(RunOneByOne(PacketTool(packetTool.thisDeviceIdentifier),
                                CircularBuffer(RECEIVE_BUFFER_SIZE),
                                Stream(scenario), <<>>))

\* C4: a call of checkForPacketReady made with a valid header and at least
\* numDataBytesPlusChecksumByte bytes available removes exactly that many
\* bytes from the receive buffer and leaves the parser searching for a
\* header.
C4_RemovesExactlyTrailingBytes ==
    (PacketCompleted /\ lastOp.headerValid) =>
        /\ lastOp.available - available(receiveBuf)
               = packetTool.numDataBytesPlusChecksumByte
        /\ ~packetTool.headerValid

\* C5: when one bit of a well-formed frame is inverted, so that the sum of
\* its bytes is no longer 0 modulo 256, every call of checkForPacketReady
\* returns, and the packet reported ready, if any, is the well-formed frame
\* that follows.
C5_CorruptedFrameIsDropped ==
    scenario.kind = "corrupted" =>
        /\ lastOp.op = "tick" => lastOp.pollExc = "none"
        /\ \A i \in 1..Len(ready) : ready[i] = PacketSent(scenario.frames[2])

\* C6: when garbage without 0xAA and then a well-formed frame for this
\* device have been received, together no more than RECEIVE_BUFFER_SIZE
\* bytes, repeated calls end with resyncCount above zero and the frame
\* reported ready.
C6_ResyncThenFrameReady ==
    (scenario.kind = "garbage" /\ Settled) =>
        /\ packetTool.resyncCount > 0
        /\ ready = <<PacketSent(scenario.frames[1])>>

\* C7: a frame whose type code is no member of PacketTypeEnum does not make
\* a call of doRunTimeTasks end with an exception.
C7_UnknownTypeDoesNotAbort ==
    (scenario.kind = "unknownType" /\ lastOp.op = "tick") =>
        lastOp.exc = "none"

\* --------------------------------------------------------------------------
\* Properties of the link (SpecLink)
\* --------------------------------------------------------------------------

\* the last call was, or began with, connectToRemoteIfRequestPending
ConnectCalled ==
    \/ lastOp.op = "connect"
    \/ lastOp.op = "linkTick" /\ ~lastOp.before.link.connected

\* the sockets accept has returned that are open
OpenSockets == { i \in DOMAIN net.sockets : net.sockets[i] = "open" }

\* C16: connectToRemoteIfRequestPending called while connected returns 0 and
\* changes neither the link nor the network (a waiting request is not
\* accepted); called while not connected it returns 0 and stays not connected
\* when no request waits, and accepts exactly one request, becomes connected
\* and returns 1 when one waits. At most one accepted socket is open in every
\* state, it is the client socket of a connected link, and a link starts not
\* connected.
C16_AcceptsOneWhenNotConnected ==
    /\ ConnectCalled /\ lastOp.before.link.connected =>
           /\ lastOp.ret = 0
           /\ link = lastOp.before.link
           /\ net = lastOp.before.net
    /\ ConnectCalled /\ ~lastOp.before.link.connected
                     /\ lastOp.before.net.pending = 0 =>
           /\ lastOp.ret = 0
           /\ ~link.connected
           /\ net = lastOp.before.net
    /\ ConnectCalled /\ ~lastOp.before.link.connected
                     /\ lastOp.before.net.pending > 0 =>
           /\ lastOp.ret = 1
           /\ link.connected
           /\ net.pending = lastOp.before.net.pending - 1
           /\ Len(net.sockets) = Len(lastOp.before.net.sockets) + 1
           /\ link.clientSocket = Len(net.sockets)
    /\ Cardinality(OpenSockets) <= 1
    /\ link.connected => OpenSockets = {link.clientSocket}
    /\ lastOp.op = "init" => ~link.connected /\ OpenSockets = {}

\* a request waited while the link was connected and was not accepted
C16_Witness ==
    /\ lastOp.op = "connect"
    /\ lastOp.before.link.connected
    /\ lastOp.before.net.pending > 0
    /\ lastOp.ret = 0
    /\ net.pending > 0

\* the last call was disconnect, of the link or of the handler, and found the
\* link not connected
DisconnectedWhenNotConnected ==
    /\ lastOp.op \in {"linkDisconnect", "disconnect"}
    /\ ~lastOp.before.link.connected

\* C17: disconnect called while the link is not connected, even before any
\* connection was accepted, raises nothing, changes neither the link, the
\* ring buffer nor the network, and leaves the link not connected.
C17_DisconnectWhenNotConnectedIsNoOp ==
    DisconnectedWhenNotConnected =>
        /\ lastOp.exc = "none"
        /\ ~link.connected
        /\ link = lastOp.before.link
        /\ receiveBuf = lastOp.before.cb
        /\ net = lastOp.before.net

\* checkForPacketReady returned true in a call of doRunTimeTasks on the link
LinkReportedReady ==
    lastOp.op = "linkTick" /\ lastOp.pollExc = "none" /\ lastOp.pollRet

\* part is a run of consecutive elements of whole
IsContiguousPart(part, whole) ==
    \E i \in 1..(Len(whole) + 1) :
        /\ i + Len(part) - 1 <= Len(whole)
        /\ SubSeq(whole, i, i + Len(part) - 1) = part

\* C18: after ControllerHandler.disconnect, whatever the parser had (part of
\* a header in the ring buffer, or a valid header whose payload has not
\* come), the link is not connected, the ring buffer has 0 values available
\* and no header is valid; a disconnect of a link that is not connected
\* changes nothing; and the bytes of a packet reported ready were all
\* received on the connection on which it is reported.
C18_DisconnectDiscardsPartialInput ==
    /\ lastOp.op = "disconnect" =>
           /\ ~link.connected
           /\ available(receiveBuf) = 0
           /\ ~packetTool.headerValid
    /\ lastOp.op = "disconnect" /\ ~lastOp.before.link.connected =>
           /\ link = lastOp.before.link
           /\ receiveBuf = lastOp.before.cb
           /\ packetTool = lastOp.before.pt
           /\ net = lastOp.before.net
    /\ LinkReportedReady => IsContiguousPart(frameBytes, lastOp.received)

\* disconnect was called with a valid header and part of its payload buffered
C18_Witness ==
    /\ lastOp.op = "disconnect"
    /\ lastOp.before.link.connected
    /\ lastOp.before.pt.headerValid
    /\ available(lastOp.before.cb) > 0

\* the last call of doRunTimeTasks found the link connected and met a
\* transport error: recv returned no byte because the remote end had closed,
\* recv raised because it had reset the connection, or the send of the reply
\* to a GET_DEVICE_INFO packet sent nothing
TransportErrorInTick ==
    /\ lastOp.op = "linkTick"
    /\ lastOp.before.link.connected
    /\ \/ lastOp.before.net.peer \in {"closed", "reset"}
       \/ /\ LinkReportedReady
          /\ ready[Len(ready)].type = GET_DEVICE_INFO
          /\ ~lastOp.before.net.sendOk

PumpedConnected == lastOp.op = "linkTick" /\ lastOp.before.link.connected

\* the slot of the ring buffer b that takes the i-th value appended to it
SlotOf(b, i) == (b.nextInsertIndex + i - 1) % b.bufferSize

SendOutBufferRan ==
    \/ lastOp.op = "sendOutBuffer"
    \/ lastOp.op = "sendString" /\ lastOp.exc # "OverflowError"

\* the number of bytes that call of sendOutBuffer was to send
NumBytesToSend ==
    IF lastOp.op = "sendOutBuffer" THEN lastOp.n ELSE lastOp.x

\* s is the beginning of t
IsPrefix(s, t) == Len(s) <= Len(t) /\ SubSeq(t, 1, Len(s)) = s

\* C21: sendOutBuffer(n) ends after at most n writes (at most one when n is
\* 0). What the transport has taken is at every end outBuffer[0 .. k - 1] for
\* some k, each byte once and in order; the call returns true when k = n and
\* no write took nothing; it raises SocketBroken, with k < n, at the first
\* write in which the transport takes nothing. outBuffer is not changed.
C21_SendHandsOverEachByteOnce ==
    SendOutBufferRan =>
        /\ lastOp.exc \in {"none", "SocketBroken"}
        /\ lastOp.writes <= Max(NumBytesToSend, 1)
        /\ IsPrefix(lastOp.written, Slice(packetTool.outBuffer, 0, NumBytesToSend))
        /\ lastOp.op = "sendOutBuffer" => packetTool.outBuffer = lastOp.before
        /\ lastOp.exc = "none" =>
               /\ lastOp.ret = TRUE
               /\ Len(lastOp.written) = NumBytesToSend
               /\ \A i \in 1..Min(lastOp.writes, Len(lastOp.accepts)) :
                      lastOp.accepts[i] > 0
        /\ lastOp.exc = "SocketBroken" =>
               /\ Len(lastOp.written) < NumBytesToSend
               /\ lastOp.writes \in 1..Len(lastOp.accepts)
               /\ lastOp.accepts[lastOp.writes] = 0
               /\ \A i \in 1..(lastOp.writes - 1) : lastOp.accepts[i] > 0

\* three bytes of a frame went out in more than one write
C21_Witness ==
    /\ lastOp.op = "sendOutBuffer"
    /\ lastOp.exc = "none"
    /\ lastOp.n = MaxSendLen
    /\ lastOp.writes >= 2
    /\ lastOp.written = <<170, 85, 2>>

\* the last call was sendString and it sent a whole frame
FrameSent == lastOp.op = "sendString" /\ lastOp.exc = "none"

\* C22: for every destination, type and text the call of sendString stores
\* and sends a checksum byte: it is 256 less the sum modulo 256 of the bytes
\* before it, taken modulo 256, so a value in 0..255, and the bytes of the
\* frame sum to 0 modulo 256.
C22_ChecksumByteMakesSumZero ==
    lastOp.op = "sendString" /\ lastOp.accepts = <<>> =>
        /\ lastOp.exc = "none"
        /\ lastOp.written = Slice(packetTool.outBuffer, 0, lastOp.x)
        /\ At(packetTool.outBuffer, lastOp.x - 1) \in 0..255
        /\ At(packetTool.outBuffer, lastOp.x - 1) =
               checksumByteMod256(packetTool.outBuffer, lastOp.x - 1)
        /\ SumSlots(packetTool.outBuffer, 0, lastOp.x) % 256 = 0

\* the number of bytes of the text the frame sent holds
TextBytesSent == Min(Len(lastOp.msgBytes), RoomForText)

\* C23: sendString assigns to no slot of outBuffer at or beyond
\* OUT_BUFFER_SIZE, for texts of every length; a frame it sends is the seven
\* header bytes, the bytes of the text (all of them, or as many as there is
\* room for when the text is longer), one byte 0, and one more byte, the
\* checksum byte.
C23_LongTextIsTruncatedNotTerminator ==
    /\ lastOp.op = "sendString" =>
           /\ lastOp.x <= OUT_BUFFER_SIZE
           /\ \A j \in DOMAIN packetTool.outBuffer.cells :
                  j \in 0..(OUT_BUFFER_SIZE - 1)
    /\ FrameSent =>
           /\ Len(lastOp.written) = 7 + TextBytesSent + 2
           /\ SubSeq(lastOp.written, 1, 5) =
                  <<170, 85, lastOp.dest, packetTool.thisDeviceIdentifier,
                    lastOp.type>>
           /\ SubSeq(lastOp.written, 8, 7 + TextBytesSent) =
                  SubSeq(lastOp.msgBytes, 1, TextBytesSent)
           /\ lastOp.written[7 + TextBytesSent + 1] = 0

\* a text longer than there is room for was sent
C23_Witness ==
    /\ FrameSent
    /\ Len(lastOp.msgBytes) > RoomForText
    /\ Len(lastOp.written) = OUT_BUFFER_SIZE

\* C24: in a frame sendString sends, bytes 6 and 7, read as a 16-bit
\* big-endian number, are the number of bytes sent between the header and
\* the checksum byte, also when the text was truncated.
C24_LengthFieldCountsPayloadSent ==
    FrameSent =>
        256 * lastOp.written[6] + lastOp.written[7] = Len(lastOp.written) - 8

\* C25: prepareHeader(dest, type, n) leaves 0xAA, 0x55, dest, this device's
\* identifier, the type code, (n >> 8) & 0xFF and n & 0xFF in outBuffer[0] to
\* outBuffer[6], leaves every slot from outBuffer[7] on as it was, and
\* returns 7.
C25_HeaderInFirstSevenSlots ==
    lastOp.op = "prepareHeader" =>
        /\ lastOp.ret = 7
        /\ Slice(packetTool.outBuffer, 0, 7) =
               <<170, 85, lastOp.dest, packetTool.thisDeviceIdentifier,
                 lastOp.type, (lastOp.n \div 256) % 256, lastOp.n % 256>>
        /\ \A j \in 7..OUT_BUFFER_SIZE :
               At(packetTool.outBuffer, j) = At(lastOp.before, j)

\* a header was laid over an earlier frame, with a length of more than 16 bits
C25_Witness ==
    /\ lastOp.op = "prepareHeader"
    /\ lastOp.n > 65535
    /\ lastOp.dest # packetTool.thisDeviceIdentifier
    /\ At(lastOp.before, 7) # 0
    /\ At(packetTool.outBuffer, 7) # 0

\* --------------------------------------------------------------------------
\* Properties of a request and its reply (SpecEndToEnd)
\* --------------------------------------------------------------------------

\* the LOG_MESSAGE packet that answers a GET_DEVICE_INFO packet: header with
\* the length of the text plus one, text, 0, checksum
Reply(id) ==
    LET body == <<170, 85, Remote(id), id, LOG_MESSAGE,
                  (Len(Greeting) + 1) \div 256, (Len(Greeting) + 1) % 256>>
                    \o Greeting \o <<0>>
    IN body \o <<(256 - (SumSeq(body) % 256)) % 256>>

\* a call of doRunTimeTasks reported a GET_DEVICE_INFO packet from the remote
\* device and sent the reply
Replied ==
    /\ LinkReportedReady
    /\ Len(ready) > 0
    /\ ready[Len(ready)].type = GET_DEVICE_INFO
    /\ ready[Len(ready)].dest = packetTool.thisDeviceIdentifier
    /\ ready[Len(ready)].src = Remote(packetTool.thisDeviceIdentifier)
    /\ lastOp.written = Reply(packetTool.thisDeviceIdentifier)

\* C26: after a client connects and sends AA 55 00 02 02 00 00 CHK to device
\* 0 (remote device 2), a finite number of calls of doRunTimeTasks reports
\* the packet ready with type GET_DEVICE_INFO and sends exactly one reply:
\* 0xAA, 0x55, 2, 0, 3, the length of the text plus one in 16 bits, the text,
\* 0x00 and the checksum that makes the sum of the frame 0 mod 256. No other
\* call sends anything, and no request is answered twice.
C26_RequestIsAnsweredOnce ==
    /\ [](lastOp.op = "linkTick" /\ lastOp.written # <<>> => Replied)
    /\ [](LinkReportedReady => Replied)
    /\ [](Len(ready) <= RequestsSent)
    /\ [](SumSeq(Reply(packetTool.thisDeviceIdentifier)) % 256 = 0)
    /\ (Len(ready) < RequestsSent) ~> Replied

\* device 0 has answered the request of a client
C26_Witness ==
    /\ packetTool.thisDeviceIdentifier = 0
    /\ lastOp.op = "linkTick"
    /\ lastOp.received = <<170, 85, 0, 2, 2, 0, 0, 253>>
    /\ lastOp.written = <<170, 85, 2, 0, 3, 0, 38>> \o Greeting \o <<0, 164>>
    /\ Len(ready) = 1

\* --------------------------------------------------------------------------
\* Properties of the field parsers (SpecParse)
\* --------------------------------------------------------------------------

\* the 16 bit two's complement integer whose bytes are hi and lo
Signed16(hi, lo) ==
    IF 256 * hi + lo < 32768 THEN 256 * hi + lo ELSE 256 * hi + lo - 65536

\* C27: parseDuplexIntegerFromPacket reads two consecutive big-endian 16 bit
\* two's complement integers at the cursor; it always returns the cursor
\* plus 4 and the first of the two values; the status is DUPLEX_MATCH_ERROR
\* exactly when the two differ (100 and 101: mismatch, value 100) and
\* PACKET_VALID otherwise.
C27_DuplexIntegerIsFirstValueAndCompared ==
    lastOp.op = "parseDuplexIntegerFromPacket" =>
        /\ lastOp.index = lastOp.pIndex + 4
        /\ lastOp.value =
               Signed16(At(packetTool.inBuffer, lastOp.pIndex),
                        At(packetTool.inBuffer, lastOp.pIndex + 1))
        /\ lastOp.status \in {"PACKET_VALID", "DUPLEX_MATCH_ERROR"}
        /\ lastOp.status = "DUPLEX_MATCH_ERROR" <=>
               Signed16(At(packetTool.inBuffer, lastOp.pIndex),
                        At(packetTool.inBuffer, lastOp.pIndex + 1))
                   # Signed16(At(packetTool.inBuffer, lastOp.pIndex + 2),
                              At(packetTool.inBuffer, lastOp.pIndex + 3))

\* the value 100 was parsed where its copy is 101
C27_Witness ==
    /\ lastOp.op = "parseDuplexIntegerFromPacket"
    /\ Slice(packetTool.inBuffer, lastOp.pIndex, lastOp.pIndex + DuplexLen)
           = <<0, 100, 0, 101>>
    /\ lastOp.status = "DUPLEX_MATCH_ERROR"
    /\ lastOp.value = 100

C29_SignExtendIsResidueInSignedRange ==
    lastOp.op = "signExtend" =>
        /\ lastOp.ret >= -Pow2(lastOp.pBits - 1)
        /\ lastOp.ret <= Pow2(lastOp.pBits - 1) - 1
        /\ (lastOp.ret - lastOp.pValue) % Pow2(lastOp.pBits) = 0
        /\ \A other \in RawValues :
               other % Pow2(lastOp.pBits) = lastOp.pValue % Pow2(lastOp.pBits)
                   => signExtend(other, lastOp.pBits) = lastOp.ret

\* a value with bits above the 16th was extended from its 16th bit
C29_Witness ==
    /\ lastOp.op = "signExtend"
    /\ lastOp.pValue = 98304
    /\ lastOp.pBits = 16
    /\ lastOp.ret = -32768

\* --------------------------------------------------------------------------
\* Properties of the header search (Spec)
\* --------------------------------------------------------------------------

\* checkForPacketReady was called with no valid header and fewer than 7
\* bytes available
SearchedWithoutHeader ==
    /\ lastOp.op = "tick"
    /\ ~lastOp.before.headerValid
    /\ available(lastOp.pumped) < HeaderLen

PolledWithHeader == lastOp.op = "tick" /\ lastOp.before.headerValid

\* C31: while a header is valid and available() is below
\* numDataBytesPlusChecksumByte, checkForPacketReady returns false, takes no
\* byte from the ring buffer and leaves headerValid, the fields of the
\* header, numDataBytesPlusChecksumByte and pktChecksum as they were; the
\* call made with that many bytes available reads them and ends the packet.
C31_WaitsForTrailingBytes ==
    /\ (/\ PolledWithHeader
        /\ available(lastOp.pumped)
               < lastOp.before.numDataBytesPlusChecksumByte) =>
           /\ lastOp.pollExc = "none"
           /\ ~lastOp.pollRet
           /\ receiveBuf = lastOp.pumped
           /\ packetTool = lastOp.before
           /\ packetTool.headerValid
    /\ (/\ PolledWithHeader
        /\ available(lastOp.pumped)
               >= lastOp.before.numDataBytesPlusChecksumByte) =>
           /\ lastOp.line \in CompletedLines
           /\ ~packetTool.headerValid

\* a call found the payload of a valid header without its checksum byte
C31_Witness ==
    /\ PolledWithHeader
    /\ available(lastOp.pumped) > 0
    /\ available(lastOp.pumped) < lastOp.before.numDataBytesPlusChecksumByte
    /\ packetTool.pktChecksum > 0

\* s from its first 0xAA on; nothing when it has none
RECURSIVE FromSync(_)
FromSync(s) ==
    IF s = <<>> \/ Head(s) = 170 THEN s ELSE FromSync(Tail(s))

\* a header search began: no header was valid and at least 7 bytes were
\* available
HeaderSearched ==
    /\ lastOp.op = "tick"
    /\ ~lastOp.before.headerValid
    /\ available(lastOp.pumped) >= HeaderLen

\* the fields of the last header are those of pt
SameHeaderFields(pt) ==
    /\ packetTool.destDeviceIdentifierFromReceivedPkt
           = pt.destDeviceIdentifierFromReceivedPkt
    /\ packetTool.sourceDeviceIdentifierFromReceivedPkt
           = pt.sourceDeviceIdentifierFromReceivedPkt
    /\ packetTool.pktType = pt.pktType
    /\ packetTool.numPktDataBytes = pt.numPktDataBytes
    /\ packetTool.numDataBytesPlusChecksumByte
           = pt.numDataBytesPlusChecksumByte

\* C32: when the first byte of a header search is not 0xAA, the bytes that
\* follow it are discarded up to the next 0xAA, which stays in the buffer, or
\* until the buffer is empty; resyncCount goes up by exactly 1, no header is
\* valid, checkForPacketReady returns false and nothing is raised.
C32_ResyncStopsAtNextSync ==
    (HeaderSearched /\ Head(Contents(lastOp.pumped)) # 170) =>
        /\ lastOp.pollExc = "none"
        /\ lastOp.exc = "none"
        /\ ~lastOp.pollRet
        /\ ~packetTool.headerValid
        /\ packetTool.resyncCount = lastOp.before.resyncCount + 1
        /\ Contents(receiveBuf) = FromSync(Tail(Contents(lastOp.pumped)))
        /\ SameHeaderFields(lastOp.before)
        /\ packetTool.inBuffer = lastOp.before.inBuffer

\* two bytes or more were discarded and the 0xAA of a frame was left
C32_Witness ==
    /\ HeaderSearched
    /\ Head(Contents(lastOp.pumped)) # 170
    /\ Len(Contents(receiveBuf)) + 2 <= Len(Contents(lastOp.pumped))
    /\ Contents(receiveBuf) # <<>>
    /\ Head(Contents(receiveBuf)) = 170

\* a header search found 0xAA and then a byte other than 0x55
FalseSyncStart ==
    /\ HeaderSearched
    /\ Contents(lastOp.pumped)[1] = 170
    /\ Contents(lastOp.pumped)[2] # 85

\* C33: when the first byte of a header search is 0xAA and the second is not
\* 0x55, both are taken and not put back, resync runs on the bytes after
\* them, and no header is valid; of the stream AA AA 55 ... the 0xAA of the
\* frame is taken as the second byte, and the frame is never reported.
C33_FalseSyncTakesBothBytes ==
    /\ FalseSyncStart =>
           /\ lastOp.pollExc = "none"
           /\ ~lastOp.pollRet
           /\ ~packetTool.headerValid
           /\ packetTool.resyncCount = lastOp.before.resyncCount + 1
           /\ Contents(receiveBuf)
                  = FromSync(SubSeq(Contents(lastOp.pumped), 3,
                                    Len(Contents(lastOp.pumped))))
           /\ SameHeaderFields(lastOp.before)
    /\ (scenario.kind = "falseSync" /\ scenario.garbage = <<170>>) =>
           ready = <<>>

\* AA AA 55 ... has been received and searched: the frame is lost
C33_Witness ==
    /\ scenario.kind = "falseSync"
    /\ scenario.garbage = <<170>>
    /\ wire = <<>>
    /\ FalseSyncStart
    /\ Contents(lastOp.pumped)[2] = 170
    /\ Contents(receiveBuf) = <<>>

\* a header search found 0xAA, 0x55 and a type code of PacketTypeEnum
SyncFound ==
    /\ HeaderSearched
    /\ Contents(lastOp.pumped)[1] = 170
    /\ Contents(lastOp.pumped)[2] = 85
    /\ Contents(lastOp.pumped)[5] \in PacketTypeEnum

\* checkForPacketHeaderAvailable (h) has taken the 7 bytes of a header from
\* the bytes c and holds what they say
HeaderTaken(h, c) ==
    /\ h.exc = "none"
    /\ h.pt.headerValid
    /\ Contents(h.cb) = SubSeq(c, HeaderLen + 1, Len(c))
    /\ h.pt.destDeviceIdentifierFromReceivedPkt = c[3]
    /\ h.pt.sourceDeviceIdentifierFromReceivedPkt = c[4]
    /\ h.pt.pktType = c[5]
    /\ h.pt.numPktDataBytes = 256 * c[6] + c[7]
    /\ h.pt.numPktDataBytes \in 0..65535
    /\ h.pt.numDataBytesPlusChecksumByte = h.pt.numPktDataBytes + 1
    /\ h.pt.pktChecksum = SumSeq(SubSeq(c, 1, HeaderLen))
    /\ h.pt.resyncCount = lastOp.before.resyncCount

\* C34: with at least 7 bytes available of which the first two are 0xAA and
\* 0x55 and the fifth a defined type code, checkForPacketHeaderAvailable
\* takes exactly 7 bytes, sets destination, source and type from the third
\* to the fifth, numPktDataBytes to 256 times the sixth plus the seventh,
\* numDataBytesPlusChecksumByte to one more, pktChecksum to the sum of the
\* seven, and headerValid; the call that then waits for the payload leaves
\* exactly that. Whenever headerValid holds, numDataBytesPlusChecksumByte
\* is numPktDataBytes + 1.
C34_HeaderFieldsFromSevenBytes ==
    /\ SyncFound =>
           HeaderTaken(checkForPacketHeaderAvailable(lastOp.before,
                                                     lastOp.pumped),
                       Contents(lastOp.pumped))
    /\ (SyncFound /\ lastOp.line = 236) =>
           HeaderTaken([pt |-> packetTool, cb |-> receiveBuf, exc |-> "none"],
                       Contents(lastOp.pumped))
    /\ packetTool.headerValid =>
           packetTool.numDataBytesPlusChecksumByte
               = packetTool.numPktDataBytes + 1

\* a header that declares a payload was taken, and the payload awaited
C34_Witness ==
    /\ SyncFound
    /\ lastOp.line = 236
    /\ packetTool.headerValid
    /\ packetTool.numPktDataBytes > 0
    /\ packetTool.sourceDeviceIdentifierFromReceivedPkt
           # packetTool.destDeviceIdentifierFromReceivedPkt

\* --------------------------------------------------------------------------
\* Properties of the order of a call of doRunTimeTasks (SpecOrder)
\* --------------------------------------------------------------------------

\* the last call of doRunTimeTasks polled as checkForPacketReady (r) does
PolledAs(r) ==
    /\ lastOp.pollRet = r.ret
    /\ lastOp.pollExc = r.exc
    /\ lastOp.line = r.line

\* a call of doRunTimeTasks that began while not connected only looked for a
\* connection request
OnlyAcceptCheck ==
    (lastOp.op = "linkTick" /\ ~lastOp.before.link.connected) =>
        /\ PolledAs(NotPolled)
        /\ lastOp.written = <<>>
        /\ receiveBuf = lastOp.before.cb
        /\ packetTool = lastOp.before.pt
        /\ lastOp.ret = (IF link.connected THEN 1 ELSE 0)

\* a call of doRunTimeTasks that began while connected polled the ring buffer
\* as the pump left it, unless the pump raised, and sent a reply only for a
\* packet the poll reported
PumpThenPollThenDispatch ==
    (lastOp.op = "linkTick" /\ lastOp.before.link.connected) =>
        /\ lastOp.before.net.peer # "open" => PolledAs(NotPolled)
        /\ lastOp.before.net.peer = "open" =>
               PolledAs(checkForPacketReady(
                            lastOp.before.pt,
                            handleReceive(lastOp.before.cb, lastOp.data)))
        /\ ~lastOp.pollRet =>
               (lastOp.written = <<>> /\ lastOp.ret = 0 /\ running)

\* C35: a call of doRunTimeTasks that starts while not connected only checks
\* for a connection request: no pump, no poll, no dispatch. One that starts
\* connected pumps before it polls, calls handlePacket only when the poll
\* returned true, and reports and dispatches at most one packet.
C35_AcceptThenPumpPollDispatch ==
    /\ [](OnlyAcceptCheck /\ PumpThenPollThenDispatch)
    /\ [][ \/ ready' = ready
           \/ /\ Len(ready') = Len(ready) + 1
              /\ SubSeq(ready', 1, Len(ready)) = ready
              /\ link.connected
              /\ lastOp'.op = "linkTick"
              /\ lastOp'.pollRet ]_vars

\* a call pumped the last bytes of two packets and reported the first, the
\* second staying in the ring buffer
C35_Witness ==
    /\ lastOp.op = "linkTick"
    /\ lastOp.before.link.connected
    /\ lastOp.data # <<>>
    /\ lastOp.pollRet
    /\ ~checkForPacketReady(lastOp.before.pt, lastOp.before.cb).ret
    /\ Len(ready) = 1
    /\ checkForPacketReady(packetTool, receiveBuf).ret

\* C36: read(buf, offset, n) returns the number of values it stored in buf,
\* for every offset and every n.
C36_ReadReturnsNumberStored ==
    lastOp.op = "read" =>
        /\ lastOp.exc = "none"
        /\ lastOp.ret = Cardinality(lastOp.cells)
        /\ lastOp.ret = available(lastOp.before) - available(receiveBuf)

\* the frames of a sequence addressed to the device id, in order
RECURSIVE AddressedTo(_, _)
AddressedTo(id, fs) ==
    IF fs = <<>> THEN <<>>
    ELSE IF Head(fs).dest = id
    THEN <<[type |-> Head(fs).type, len |-> Len(Head(fs).payload),
            payload |-> Head(fs).payload]>> \o AddressedTo(id, Tail(fs))
    ELSE AddressedTo(id, Tail(fs))

\* C37: of well-formed frames buffered back to back without overrun, every
\* frame addressed to this device with a valid checksum is reported ready
\* exactly once, in arrival order, whatever rejected frames lie between.
C37_EachFrameReportedOnceInOrder ==
    (scenario.kind = "pair" /\ Settled) =>
        Triples(ready) = AddressedTo(packetTool.thisDeviceIdentifier,
                                     scenario.frames)

\* the largest value available() returns for the receive buffer: both
\* indices lie in 0 .. bufferSize - 1
MaxAvailable == RECEIVE_BUFFER_SIZE - 1

\* the header found declares more bytes to follow than available() can
\* report
Stalled ==
    /\ packetTool.headerValid
    /\ TrailingBytes(frameBytes) > MaxAvailable

\* C38: available() never exceeds MaxAvailable, and once a header declares a
\* payload length with payloadLength + 1 above that, every later call of
\* checkForPacketReady returns False, the parser keeps the header as valid
\* and no further packet is reported ready.
C38_OversizeLengthStallsTheParser ==
    /\ [](available(receiveBuf) <= MaxAvailable)
    /\ [](Stalled => packetTool.numDataBytesPlusChecksumByte
                         = TrailingBytes(frameBytes))
    /\ [][Stalled => /\ Stalled'
                     /\ packetTool' = packetTool
                     /\ ready' = ready
                     /\ lastOp'.pollExc = "none"
                     /\ lastOp'.pollRet = FALSE
                     /\ running']_vars

\* a call made with the oversize header valid and MaxAvailable bytes of the
\* frame of RECEIVE_BUFFER_SIZE bytes behind it buffered
C38_Witness ==
    /\ scenario.kind = "oversize"
    /\ Len(Stream(scenario)) > RECEIVE_BUFFER_SIZE
    /\ Stalled
    /\ lastOp.op = "tick"
    /\ lastOp.before.headerValid
    /\ lastOp.available = MaxAvailable
    /\ ~lastOp.pollRet
    /\ ready = <<>>

\* --------------------------------------------------------------------------
\* Properties of handleMoveByDistanceAndTimePacket (SpecMove)
\* --------------------------------------------------------------------------

\* the copy of the duplex field f of inBuffer differs from its value
DuplexMismatch(f) ==
    \/ At(packetTool.inBuffer, 4 * f) # At(packetTool.inBuffer, 4 * f + 2)
    \/ At(packetTool.inBuffer, 4 * f + 1) # At(packetTool.inBuffer, 4 * f + 3)

\* the command that sets both speeds to zero
StopCommand == <<126, 59, 42, 0, 0, 0, 0, 154>>

\* C39: when one of the four duplex fields of a move packet has a copy that
\* differs, the handler returns -1 and writes nothing to the motor link;
\* otherwise it returns 1 after writing at least one speed command and,
\* last, the command for zero speed.
C39_MoveStopsOrWritesNothing ==
    lastOp.op = "move" =>
        /\ lastOp.exc = "none"
        /\ IF \E f \in 0..3 : DuplexMismatch(f)
           THEN lastOp.ret = -1 /\ lastOp.motor = <<>>
           ELSE /\ lastOp.ret = 1
                /\ Len(lastOp.motor) >= 2
                /\ lastOp.motor[Len(lastOp.motor)] = StopCommand
                /\ \A i \in 1..Len(lastOp.motor) :
                       /\ Len(lastOp.motor[i]) = 8
                       /\ SubSeq(lastOp.motor[i], 1, 3) = <<126, 59, 42>>

\* a move at speeds 5 and -5 that made two passes and stopped
C39_Witness ==
    /\ lastOp.op = "move"
    /\ lastOp.ret = 1
    /\ lastOp.motor = << <<126, 59, 42, 255, 251, 0, 5, 155>>,
                         <<126, 59, 42, 255, 251, 0, 5, 155>>,
                         StopCommand >>

\* --------------------------------------------------------------------------
\* Properties of a PacketTool whose streams are not set (SpecLink)
\* --------------------------------------------------------------------------

\* C40: checkForPacketReady called before setStreams has set the input
\* stream returns False, raises nothing and leaves the parser as it was.
C40_NoStreamsReturnsFalse ==
    lastOp.op = "poll" =>
        /\ lastOp.exc = "none"
        /\ lastOp.ret = FALSE
        /\ packetTool = lastOp.before.pt

====
